---- MODULE Spec2Model ----
(***************************************************************************)
(* Model of @ty-ras/metadata-openapi:                                      *)
(*   - the JSON Schema -> OpenAPI schema converter (jsonschema.ts),        *)
(*   - the OpenAPI metadata provider (provider.ts),                        *)
(*   - the removal of authenticated operations (utils.ts).                 *)
(*                                                                         *)
(* The converter is modelled over an explicit heap of JavaScript objects   *)
(* and arrays, so that object identity, copying and in-place mutation are  *)
(* observable.  The provider builds plain values; the utilities work on    *)
(* a store of the objects of a document.                                   *)
(***************************************************************************)
EXTENDS Integers, Sequences, FiniteSets, TLC

VARIABLES
  \* the converter: the objects, the objects before the latest call, the
  \* schema converted, the results of the two calls, the caller's position
  heap, before, input, result, result2, cpc,
  \* the provider: the arguments of afterDefiningURLEndpoints, what it
  \* returned, the responses given to the customization callbacks of each
  \* method, the caller's position
  urlArgs, definedEndpoints, pathEntry, seen400Responses, seen422Responses, ppc,
  \* the document: the path entries collected for createFinalMetadata, each
  \* with the arguments it was made from, the document returned, the
  \* caller's position
  pathEntries, finalDoc, fpc,
  \* the utilities: the objects of the document given to
  \* removeAuthenticatedOperations, the objects before the latest call, the
  \* document given, what the first and the second call returned, the
  \* caller's position
  store, storeBefore, givenDoc, stripped, restripped, spc

convVars == <<heap, before, input, result, result2, cpc>>
provVars == <<urlArgs, definedEndpoints, pathEntry, seen400Responses, seen422Responses, ppc>>
finalVars == <<pathEntries, finalDoc, fpc>>
utilVars == <<store, storeBefore, givenDoc, stripped, restripped, spc>>
vars == <<convVars, provVars, finalVars, utilVars>>

(***************************************************************************)
(* Bounds of the model.                                                    *)
(***************************************************************************)
\* nesting depth of the generated input schemas
MaxDepth == 2
\* length of the generated schema arrays
MaxArrLen == 2
\* content types of a request or response body
MaxContents == 2
\* request headers, and query parameters, of an operation
MaxParams == 2
\* parameters of a URL pattern
MaxUrlParams == 2
\* alternative usage groups of an operation
MaxGroups == 2
\* scheme usages of a usage group
MaxUsages == 2

(***************************************************************************)
(* JavaScript values.  An object is a cell of the heap: a function from    *)
(* keys to values, where Absent marks a key the object does not have.      *)
(***************************************************************************)
Absent == [t |-> "absent", n |-> 0]
Undef == [t |-> "undefined", n |-> 0]
Bool(b) == [t |-> "boolean", n |-> IF b THEN 1 ELSE 0]
Prim(i) == [t |-> "primitive", n |-> i]
Ref(a) == [t |-> "ref", n |-> a]

\* The keys convertBooleanSchemasToObjects assigns, in source order, each
\* with the handler it applies.
ConvertedKeys ==
  << [key |-> "items", by |-> "handleSchemaOrArray"],
     [key |-> "additionalItems", by |-> "handleSchemaOrArray"],
     [key |-> "properties", by |-> "handleSchemaRecord"],
     [key |-> "patternProperties", by |-> "handleSchemaRecord"],
     [key |-> "additionalProperties", by |-> "handleSchemaOrArray"],
     [key |-> "dependencies", by |-> "handleSchemaRecord"],
     [key |-> "propertyNames", by |-> "handleSchemaOrArray"],
     [key |-> "if", by |-> "handleSchemaOrArray"],
     [key |-> "then", by |-> "handleSchemaOrArray"],
     [key |-> "else", by |-> "handleSchemaOrArray"],
     [key |-> "allOf", by |-> "handleSchemaOrArray"],
     [key |-> "anyOf", by |-> "handleSchemaOrArray"],
     [key |-> "oneOf", by |-> "handleSchemaOrArray"],
     [key |-> "not", by |-> "handleSchemaOrArray"],
     [key |-> "definitions", by |-> "handleSchemaRecord"] >>

\* SourceKey with additionalItems and additionalProperties each read from
\* the other's key
SourceKeySwapped(key) ==
  IF key = "additionalProperties" THEN "additionalItems"
  ELSE IF key = "additionalItems" THEN "additionalProperties"
       ELSE key

\* SourceKey with every key read from itself
SourceKeyItself(key) == key

\* the key of the input schema whose value the handler of a key is given
SourceKey(key) ==
  IF key = "additionalProperties" THEN "additionalItems" ELSE key

\* keys of JSONSchema7 holding one schema, an array of schemas, a record
SingleKeys == {"additionalItems", "additionalProperties", "propertyNames",
               "if", "then", "else", "not", "items"}
ArrayKeys == {"items", "allOf", "anyOf", "oneOf"}
RecordKeys == {"properties", "patternProperties", "dependencies", "definitions"}
SchemaKeys == SingleKeys \cup ArrayKeys \cup RecordKeys
\* keys the converter does not look into, except const
PassKeys == {"const", "enum", "type"}
\* names used as keys of the keyed collections
PropNames == {"p", "q"}
AllKeys == SchemaKeys \cup PassKeys \cup PropNames

\* a fixed enumeration order of the keys of an object
KeyOrder ==
  << "const", "enum", "type", "items", "additionalItems", "properties",
     "patternProperties", "additionalProperties", "dependencies",
     "propertyNames", "if", "then", "else", "allOf", "anyOf", "oneOf",
     "not", "definitions", "p", "q" >>

NoFields == [key \in AllKeys |-> Absent]
ObjCell(f) == [k |-> "obj", f |-> f, e |-> <<>>]
ArrCell(e) == [k |-> "arr", f |-> NoFields, e |-> e]

\* allocation of a new object or array
New(h, cell) == [h |-> Append(h, cell), v |-> Ref(Len(h) + 1)]
\* obj[key], which is undefined when the object has no such key
Get(h, a, key) == IF h[a].f[key] = Absent THEN Undef ELSE h[a].f[key]
\* obj[key] = v
Put(h, a, key, v) == [h EXCEPT ![a].f[key] = v]
\* Array.isArray(value)
IsArray(h, value) == value.t = "ref" /\ h[value.n].k = "arr"

\* Object.entries(obj)
ObjectEntries(h, a) ==
  LET keys == SelectSeq(KeyOrder, LAMBDA key : h[a].f[key] # Absent)
  IN  [i \in 1..Len(keys) |-> [key |-> keys[i], val |-> h[a].f[keys[i]]]]

(***************************************************************************)
(* jsonschema.ts                                                           *)
(***************************************************************************)
RECURSIVE convertBooleanSchemasToObjects(_, _)
RECURSIVE MapConvert(_, _, _, _)
RECURSIVE ReduceRecord(_, _, _, _)
RECURSIVE AssignConvertedKeys(_, _, _, _)

transformConstToEnum(h, a) ==
  IF h[a].f["const"] # Absent /\ h[a].f["const"] # Undef
  THEN LET schemaObj == New(h, ObjCell([h[a].f EXCEPT !["const"] = Absent]))
           enumArr == New(schemaObj.h, ArrCell(<<h[a].f["const"]>>))
           rest == enumArr.h[schemaObj.v.n].f
       IN  New(enumArr.h,
               ObjCell([key \in AllKeys |->
                          IF key = "enum" /\ rest[key] = Absent
                          THEN enumArr.v ELSE rest[key]]))
  ELSE IF h[a].f["const"] # Absent
       THEN LET schemaObj == New(h, ObjCell([h[a].f EXCEPT !["const"] = Absent]))
            IN  New(schemaObj.h, ObjCell(schemaObj.h[a].f))
       ELSE New(h, ObjCell(h[a].f))

\* value.map(convertBooleanSchemasToObjects), element i onwards
MapConvert(h, a, i, out) ==
  IF i > Len(h[a].e) THEN New(h, ArrCell(out))
  ELSE LET r == convertBooleanSchemasToObjects(h, h[a].e[i])
       IN  MapConvert(r.h, a, i + 1, Append(out, r.v))

handleSchemaOrArray(h, value) ==
  IF value = Undef THEN [h |-> h, v |-> Undef]
  ELSE IF IsArray(h, value) THEN MapConvert(h, value.n, 1, <<>>)
       ELSE convertBooleanSchemasToObjects(h, value)

\* the reducer of handleSchemaRecord, entry i onwards
ReduceRecord(h, entries, i, newRecord) ==
  IF i > Len(entries) THEN [h |-> h, v |-> Ref(newRecord)]
  ELSE LET val == entries[i].val
           r == IF val # Undef /\ ~IsArray(h, val)
                THEN convertBooleanSchemasToObjects(h, val)
                ELSE [h |-> h, v |-> val]
       IN  ReduceRecord(Put(r.h, newRecord, entries[i].key, r.v),
                        entries, i + 1, newRecord)

\* handleSchemaRecord copying the values as they are
handleSchemaRecordShallow(h, record) ==
  IF record = Undef THEN [h |-> h, v |-> record]
  ELSE LET entries == ObjectEntries(h, record.n)
       IN  New(h, ObjCell([key \in AllKeys |->
                             IF \E i \in 1..Len(entries) : entries[i].key = key
                             THEN h[record.n].f[key] ELSE Absent]))

\* handleSchemaRecord reducing into the record it was given
handleSchemaRecordInPlace(h, record) ==
  IF record = Undef THEN [h |-> h, v |-> record]
  ELSE ReduceRecord(h, ObjectEntries(h, record.n), 1, record.n)

handleSchemaRecord(h, record) ==
  IF record = Undef THEN [h |-> h, v |-> record]
  ELSE LET entries == ObjectEntries(h, record.n)
           initial == New(h, ObjCell(NoFields))
       IN  ReduceRecord(initial.h, entries, 1, initial.v.n)

stripUndefineds(h, a) ==
  [h EXCEPT ![a].f = [key \in AllKeys |->
                        IF h[a].f[key] = Undef THEN Absent ELSE h[a].f[key]]]

\* The properties after the spread of the object literal, property i
\* onwards.  The properties up to the next one whose handler is given a
\* defined value are assigned together: their handlers return undefined and
\* leave the heap alone.
AssignConvertedKeys(h, schema, literal, i) ==
  LET defined == {j \in i..Len(ConvertedKeys) :
                    Get(h, schema, SourceKey(ConvertedKeys[j].key)) # Undef}
      next == IF defined = {} THEN Len(ConvertedKeys) + 1
              ELSE CHOOSE j \in defined : \A l \in defined : j <= l
      skipped == {ConvertedKeys[j].key : j \in i..(next - 1)}
      h1 == [h EXCEPT ![literal].f =
               [key \in AllKeys |->
                  IF key \in skipped THEN Undef ELSE h[literal].f[key]]]
  IN  IF next > Len(ConvertedKeys) THEN h1
      ELSE LET entry == ConvertedKeys[next]
               value == Get(h1, schema, SourceKey(entry.key))
               r == IF entry.by = "handleSchemaOrArray"
                    THEN handleSchemaOrArray(h1, value)
                    ELSE handleSchemaRecord(h1, value)
           IN  AssignConvertedKeys(Put(r.h, literal, entry.key, r.v),
                                   schema, literal, next + 1)

convertBooleanSchemasToObjects(h, schema) ==
  IF schema.t = "boolean"
  THEN IF schema.n = 1
       THEN New(h, ObjCell(NoFields))
       ELSE LET inner == New(h, ObjCell(NoFields))
            IN  New(inner.h, ObjCell([NoFields EXCEPT !["not"] = inner.v]))
  ELSE LET spread == transformConstToEnum(h, schema.n)
           literal == New(spread.h, ObjCell(spread.h[spread.v.n].f))
           assigned == AssignConvertedKeys(literal.h, schema.n, literal.v.n, 1)
       IN  [h |-> stripUndefineds(assigned, literal.v.n), v |-> literal.v]

convertToOpenAPISchemaObject(h, schema) ==
  convertBooleanSchemasToObjects(h, schema)

(***************************************************************************)
(* provider.ts.  Objects are functions from their keys to values; objects  *)
(* whose key order shows in the output are sequences of entries [key, val].*)
(* An optional value is None (undefined) or Some(v).                       *)
(***************************************************************************)
None == <<>>
Some(v) == <<v>>
Entry(key, val) == [key |-> key, val |-> val]
\* Object.keys(obj) of an object kept as entries
Keys(entries) == {entries[i].key : i \in 1..Len(entries)}
\* obj[key] of an object kept as entries
Lookup(entries, key) ==
  entries[CHOOSE i \in 1..Len(entries) : entries[i].key = key].val

\* What the callbacks given to createOpenAPIProviderGeneric answer for a
\* validator: the validator carries the answers.
getUndefinedPossibility(validator) == validator.undefinedPossibility
generateDecoderJSONSchema(contentType, decoder) ==
  IF decoder.hasSchema THEN Some("enum" :> <<decoder.id>>) ELSE None
generateEncoderJSONSchema(contentType, encoder) ==
  IF encoder.hasSchema THEN Some("enum" :> <<encoder.id>>) ELSE None
stringDecoder(decoder) == "enum" :> <<decoder.id>>
stringEncoder(encoder) == "enum" :> <<encoder.id>>
getSecurityObjects(stateInfo) == stateInfo

\* A customization callback of the given kind applied to the draft: what it
\* returns, and the draft as the callback leaves it.
CustomizeResponse(kind, draft, code) ==
  IF kind = "record-only" THEN [returned |-> None, draft |-> draft]
  ELSE IF kind = "description"
       THEN LET modified == [draft EXCEPT !["description"] =
                               "Modified " \o code \o " response"]
            IN  [returned |-> Some(modified), draft |-> modified]
       ELSE [returned |-> Some("description" :> "Replaced " \o code \o " response"),
             draft |-> draft]

\* customize?.(draft) ?? draft
CustomizedIgnoringReturn(kind, draft, code) ==
  IF kind = "none" THEN draft ELSE CustomizeResponse(kind, draft, code).draft

Customized(kind, draft, code) ==
  IF kind = "none" THEN draft
  ELSE LET called == CustomizeResponse(kind, draft, code)
       IN  IF called.returned # None THEN called.returned[1] ELSE called.draft

\* a schema key is written whatever the callback returned
addSchemaAlways(obj, schema) ==
  ("schema" :> (IF schema # None THEN schema[1] ELSE <<>>)) @@ obj

addSchema(obj, schema) ==
  IF schema # None THEN ("schema" :> schema[1]) @@ obj ELSE obj

\* generateJSONSchema(contentType, contentOutput), the function given by name
GenerateAnyJSONSchema(generateJSONSchema, contentType, contentOutput) ==
  IF generateJSONSchema = "generateEncoderJSONSchema"
  THEN generateEncoderJSONSchema(contentType, contentOutput)
  ELSE generateDecoderJSONSchema(contentType, contentOutput)

getContentMap(contentEntries, mediaTypes, generateJSONSchema) ==
  [i \in 1..Len(contentEntries) |->
     Entry(contentEntries[i].key,
           addSchema("example" :> mediaTypes[contentEntries[i].key].example,
                     GenerateAnyJSONSchema(generateJSONSchema,
                                           contentEntries[i].key,
                                           contentEntries[i].val)))]

\* the parameters rendered by their names alone
getUrlPathStringBare(urlSpec) ==
  LET RECURSIVE Join(_)
      Join(i) ==
        IF i > Len(urlSpec) THEN ""
        ELSE (IF urlSpec[i].isString THEN urlSpec[i].text
              ELSE urlSpec[i].name) \o Join(i + 1)
  IN  Join(1)

getUrlPathString(urlSpec) ==
  LET RECURSIVE Join(_)
      Join(i) ==
        IF i > Len(urlSpec) THEN ""
        ELSE (IF urlSpec[i].isString THEN urlSpec[i].text
              ELSE "{" \o urlSpec[i].name \o "}") \o Join(i + 1)
  IN  Join(1)

\* the index of the last element of the name, where findIndex gives the first
FindIndexOfLast(patternSpec, name) ==
  LET found == {i \in 1..Len(patternSpec) :
                  ~patternSpec[i].isString /\ patternSpec[i].name = name}
  IN  IF found = {} THEN -1
      ELSE (CHOOSE i \in found : \A j \in found : i >= j) - 1

\* patternSpec.findIndex((v) => typeof v !== "string" && v.name === name),
\* counted from 0, -1 when there is none
FindIndex(patternSpec, name) ==
  LET found == {i \in 1..Len(patternSpec) :
                  ~patternSpec[i].isString /\ patternSpec[i].name = name}
  IN  IF found = {} THEN -1
      ELSE (CHOOSE i \in found : \A j \in found : i <= j) - 1

getURLParameters(urlSpec, urlObject, patternSpec) ==
  LET urlParamObjects ==
        [i \in 1..Len(urlObject) |->
           ("name" :> urlObject[i].key)
           @@ ("in" :> "path")
           @@ ("required" :> TRUE)
           @@ ("schema" :> (("pattern" :> urlSpec[urlObject[i].key].regExp)
                            @@ stringDecoder(urlSpec[urlObject[i].key].decoder)))
           @@ urlObject[i].val]
      index(i) == FindIndex(patternSpec, urlParamObjects[i]["name"])
      \* Array.prototype.sort is stable
      place(i) == 1 + Cardinality({j \in 1..Len(urlObject) :
                                     \/ index(j) < index(i)
                                     \/ index(j) = index(i) /\ j < i})
  IN  [k \in 1..Len(urlObject) |->
         urlParamObjects[CHOOSE i \in 1..Len(urlObject) : place(i) = k]]

getResponseBodyTwoState(outputSpec, output) ==
  LET contentEntries == outputSpec.contents
      hasResponse204 ==
        \E i \in 1..Len(contentEntries) :
          getUndefinedPossibility(contentEntries[i].val) = "true"
      response200Entries ==
        SelectSeq(contentEntries,
                  LAMBDA e : getUndefinedPossibility(e.val) # "true")
      with204 ==
        IF hasResponse204
        THEN "204" :> ("description" :> output.description)
        ELSE <<>>
  IN  IF Len(response200Entries) > 0
      THEN ("200" :> (("description" :> output.description)
                      @@ ("content" :> getContentMap(response200Entries,
                                                     output.mediaTypes,
                                                     "generateEncoderJSONSchema"))))
           @@ with204
      ELSE with204

getResponseBody(outputSpec, output) ==
  LET contentEntries == outputSpec.contents
      hasResponse204 ==
        \E i \in 1..Len(contentEntries) :
          getUndefinedPossibility(contentEntries[i].val) # "false"
      response200Entries ==
        SelectSeq(contentEntries,
                  LAMBDA e : getUndefinedPossibility(e.val) # "true")
      with204 ==
        IF hasResponse204
        THEN "204" :> ("description" :> output.description)
        ELSE <<>>
  IN  IF Len(response200Entries) > 0
      THEN ("200" :> (("description" :> output.description)
                      @@ ("content" :> getContentMap(response200Entries,
                                                     output.mediaTypes,
                                                     "generateEncoderJSONSchema"))))
           @@ with204
      ELSE with204

\* the headers given to the 200 response only
handleResponseHeadersOf200(responseHeadersSpec, responseHeadersObject, responseObjects) ==
  IF responseHeadersSpec # None /\ responseHeadersObject # None
  THEN [code \in DOMAIN responseObjects |->
          IF code = "200"
          THEN ("headers" :>
                  [i \in 1..Len(responseHeadersSpec[1]) |->
                     Entry(responseHeadersSpec[1][i].key,
                           ("required" :> responseHeadersSpec[1][i].val.required)
                           @@ ("schema" :> stringEncoder(responseHeadersSpec[1][i].val.encoder))
                           @@ responseHeadersObject[1][responseHeadersSpec[1][i].key])])
               @@ responseObjects[code]
          ELSE responseObjects[code]]
  ELSE responseObjects

handleResponseHeaders(responseHeadersSpec, responseHeadersObject, responseObjects) ==
  IF responseHeadersSpec # None /\ responseHeadersObject # None
  THEN [code \in DOMAIN responseObjects |->
          ("headers" :>
             [i \in 1..Len(responseHeadersSpec[1]) |->
                Entry(responseHeadersSpec[1][i].key,
                      ("required" :> responseHeadersSpec[1][i].val.required)
                      @@ ("schema" :> stringEncoder(responseHeadersSpec[1][i].val.encoder))
                      @@ responseHeadersObject[1][responseHeadersSpec[1][i].key])])
          @@ responseObjects[code]]
  ELSE responseObjects

getRequestHeaders(requestHeadersSpec, requestHeadersObject) ==
  IF requestHeadersSpec # None /\ requestHeadersObject # None
  THEN [i \in 1..Len(requestHeadersSpec[1]) |->
          ("in" :> "header")
          @@ ("name" :> requestHeadersSpec[1][i].key)
          @@ ("required" :> requestHeadersSpec[1][i].val.required)
          @@ ("schema" :> stringDecoder(requestHeadersSpec[1][i].val.decoder))
          @@ requestHeadersObject[1][requestHeadersSpec[1][i].key]]
  ELSE <<>>

getQuery(querySpec, queryObject) ==
  IF querySpec # None /\ queryObject # None
  THEN [i \in 1..Len(querySpec[1]) |->
          ("in" :> "query")
          @@ ("name" :> querySpec[1][i].key)
          @@ ("required" :> querySpec[1][i].val.required)
          @@ ("schema" :> stringDecoder(querySpec[1][i].val.decoder))
          @@ queryObject[1][querySpec[1][i].key]]
  ELSE <<>>

\* required unless some content type's validator accepts undefined for sure
getRequestBodyRequiredUnlessTrue(inputSpec, body) ==
  LET inputEntries == inputSpec.contents
  IN  ("required" :>
         ~(\E i \in 1..Len(inputEntries) :
             getUndefinedPossibility(inputEntries[i].val) = "true"))
      @@ ("content" :> getContentMap(inputEntries, body, "generateDecoderJSONSchema"))

getRequestBody(inputSpec, body) ==
  LET inputEntries == inputSpec.contents
  IN  ("required" :>
         ~(\E i \in 1..Len(inputEntries) :
             getUndefinedPossibility(inputEntries[i].val) # "false"))
      @@ ("content" :> getContentMap(inputEntries, body, "generateDecoderJSONSchema"))

\* the reducer building one security requirement object, usage i onwards
RECURSIVE ReduceUsages(_, _, _)
ReduceUsages(schemeUsages, i, sec) ==
  IF i > Len(schemeUsages) THEN sec
  ELSE ReduceUsages(schemeUsages, i + 1,
                    (schemeUsages[i].schemeID :> schemeUsages[i].requirementData)
                    @@ sec)

\* security.securitySchemes.flat()
RECURSIVE Flat(_)
Flat(groups) ==
  IF groups = <<>> THEN <<>> ELSE Head(groups) \o Flat(Tail(groups))

\* the scheme of the usage i alone
RegisterSchemesOfFirst(usages, i, securitySchemes) ==
  IF i > Len(usages) THEN securitySchemes
  ELSE (usages[i].schemeID :> usages[i].scheme) @@ securitySchemes

\* securitySchemes[schemeID] = scheme for the usages from i onwards
RECURSIVE RegisterSchemes(_, _, _)
RegisterSchemes(usages, i, securitySchemes) ==
  IF i > Len(usages) THEN securitySchemes
  ELSE RegisterSchemes(usages, i + 1,
                       (usages[i].schemeID :> usages[i].scheme) @@ securitySchemes)

\* requestBody && requestBodyObject
DeclaresRequestBodyWithContents(requestBody, requestBodyObject) ==
  requestBody # None /\ requestBodyObject # None /\ Len(requestBody[1].contents) > 0

DeclaresRequestBody(requestBody, requestBodyObject) ==
  requestBody # None /\ requestBodyObject # None

\* security && security.securitySchemes.length > 0
HasSecurityWhenReturned(security) == security # None

HasSecurity(security) ==
  security # None /\ Len(security[1].securitySchemes) > 0

\* operationObject.security: a requirement object of each group of usages,
\* after an empty one if some usage is optional
SecurityRequirementsAppending(securitySchemes) ==
  LET requirements ==
        [i \in 1..Len(securitySchemes) |-> ReduceUsages(securitySchemes[i], 1, <<>>)]
      optionalSecuritySchemeSeen ==
        \E i \in 1..Len(securitySchemes) :
          \E j \in 1..Len(securitySchemes[i]) : securitySchemes[i][j].isOptional
  IN  IF optionalSecuritySchemeSeen THEN requirements \o <<<<>>>> ELSE requirements

\* no empty requirement object, whatever the usages
SecurityRequirementsOfGroups(securitySchemes) ==
  [i \in 1..Len(securitySchemes) |-> ReduceUsages(securitySchemes[i], 1, <<>>)]

SecurityRequirements(securitySchemes) ==
  LET requirements ==
        [i \in 1..Len(securitySchemes) |-> ReduceUsages(securitySchemes[i], 1, <<>>)]
      optionalSecuritySchemeSeen ==
        \E i \in 1..Len(securitySchemes) :
          \E j \in 1..Len(securitySchemes[i]) : securitySchemes[i][j].isOptional
  IN  IF optionalSecuritySchemeSeen THEN <<<<>>>> \o requirements ELSE requirements

\* the phrase of the 400 response
ConditionStringQueryFirst(hasURLParameters, hasQueryParameters, hasRequestHeaders) ==
  LET names == (IF hasQueryParameters THEN <<"query">> ELSE <<>>)
               \o (IF hasURLParameters THEN <<"URL path parameters">> ELSE <<>>)
               \o (IF hasRequestHeaders THEN <<"request headers">> ELSE <<>>)
      RECURSIVE JoinOr(_)
      JoinOr(i) ==
        IF i > Len(names) THEN ""
        ELSE IF i = Len(names) THEN names[i]
             ELSE names[i] \o " or " \o JoinOr(i + 1)
  IN  JoinOr(1)

ConditionString(hasURLParameters, hasQueryParameters, hasRequestHeaders) ==
  LET names == (IF hasURLParameters THEN <<"URL path parameters">> ELSE <<>>)
               \o (IF hasQueryParameters THEN <<"query">> ELSE <<>>)
               \o (IF hasRequestHeaders THEN <<"request headers">> ELSE <<>>)
      RECURSIVE JoinOr(_)
      JoinOr(i) ==
        IF i > Len(names) THEN ""
        ELSE IF i = Len(names) THEN names[i]
             ELSE names[i] \o " or " \o JoinOr(i + 1)
  IN  JoinOr(1)

\* parameters.push(...pushed)
PushParametersInFront(parameters, pushed) == pushed \o parameters

PushParameters(parameters, pushed) == parameters \o pushed

\* The operation object, the security schemes registered so far and the
\* responses the customization callbacks have been given.
getOperationObject(spec, md, securitySchemes, hasURLParameters) ==
  LET responseObjects ==
        handleResponseHeaders(spec.responseHeaders, md.responseHeaders,
                              getResponseBody(spec.responseBody, md.responseBody))
      headerParameters ==
        PushParameters(<<>>, getRequestHeaders(spec.requestHeaders, md.headers))
      prevLength == Len(headerParameters)
      hasRequestHeaders == prevLength > 0
      parameters == PushParameters(headerParameters, getQuery(spec.query, md.query))
      hasQueryParameters == Len(parameters) > prevLength
      withParameters ==
        (IF Len(parameters) > 0 THEN "parameters" :> parameters ELSE <<>>)
        @@ md.operation
      \* request body
      hasRequestBody == DeclaresRequestBody(spec.requestBody, md.requestBody)
      response422 == "description" :> "If request body validation fails."
      called422 == hasRequestBody /\ md.customize422Response # "none"
      emitted422 == Customized(md.customize422Response, response422, "422")
      withRequestBody ==
        IF hasRequestBody
        THEN ("requestBody" :> getRequestBody(spec.requestBody[1], md.requestBody[1]))
             @@ withParameters
        ELSE withParameters
      responses422 ==
        IF hasRequestBody THEN ("422" :> emitted422) @@ responseObjects
        ELSE responseObjects
      \* security
      security == getSecurityObjects(spec.stateInfo)
      hasSecurity == HasSecurity(security)
      withSecurity ==
        IF hasSecurity
        THEN ("security" :> SecurityRequirements(security[1].securitySchemes))
             @@ withRequestBody
        ELSE withRequestBody
      responses401 ==
        IF hasSecurity THEN ("401" :> security[1].ifFailed) @@ responses422
        ELSE responses422
      registered ==
        IF hasSecurity
        THEN RegisterSchemes(Flat(security[1].securitySchemes), 1, securitySchemes)
        ELSE securitySchemes
      \* parameter validation
      has400 == hasRequestHeaders \/ hasQueryParameters \/ hasURLParameters
      response400 ==
        "description" :>
          "If " \o ConditionString(hasURLParameters, hasQueryParameters,
                                   hasRequestHeaders) \o " fail validation."
      called400 == has400 /\ md.customize400Response # "none"
      emitted400 == Customized(md.customize400Response, response400, "400")
      responses400 ==
        IF has400 THEN ("400" :> emitted400) @@ responses401 ELSE responses401
  IN  [operationObject |-> ("responses" :> responses400) @@ withSecurity,
       securitySchemes |-> registered,
       seen400Responses |-> IF called400 THEN <<response400>> ELSE <<>>,
       seen422Responses |-> IF called422 THEN <<response422>> ELSE <<>>]

\* methodUppercased.toLowerCase()
ToLowerCase(method) ==
  CASE method = "GET" -> "get"
    [] method = "POST" -> "post"
    [] method = "PUT" -> "put"
    [] method = "DELETE" -> "delete"

\* the operations of the endpoints from i onwards, threading the security
\* schemes of the path through them
RECURSIVE MapEndpoints(_, _, _, _)
MapEndpoints(endpoints, i, hasURLParameters, acc) ==
  IF i > Len(endpoints) THEN acc
  ELSE LET r == getOperationObject(endpoints[i].val.spec, endpoints[i].val.md,
                                   acc.securitySchemes, hasURLParameters)
           method == ToLowerCase(endpoints[i].key)
       IN  MapEndpoints(endpoints, i + 1, hasURLParameters,
             [operations |-> Append(acc.operations, Entry(method, r.operationObject)),
              securitySchemes |-> r.securitySchemes,
              seen400Responses |-> (method :> r.seen400Responses) @@ acc.seen400Responses,
              seen422Responses |-> (method :> r.seen422Responses) @@ acc.seen422Responses])

\* of entries of one key the first gives the value
FromEntriesKeepingFirst(entries) ==
  [key \in Keys(entries) |->
     entries[CHOOSE i \in 1..Len(entries) :
               entries[i].key = key
               /\ \A j \in 1..(i - 1) : entries[j].key # key].val]

\* Object.fromEntries(entries) spread into an object
FromEntries(entries) ==
  [key \in Keys(entries) |->
     entries[CHOOSE i \in 1..Len(entries) :
               entries[i].key = key
               /\ \A j \in (i + 1)..Len(entries) : entries[j].key # key].val]

afterDefiningURLEndpoints(args, endpoints) ==
  LET urlParameters == args.md.url
      hasURLParameters == urlParameters # None /\ Len(urlParameters[1]) > 0
      mapped == MapEndpoints(endpoints, 1, hasURLParameters,
                  [operations |-> <<>>, securitySchemes |-> <<>>,
                   seen400Responses |-> <<>>, seen422Responses |-> <<>>])
      pathItem == FromEntries(mapped.operations) @@ args.md.pathItem
  IN  [entry |->
         [pattern |-> getUrlPathString(args.patternSpec),
          pathItem |-> IF hasURLParameters
                       THEN ("parameters" :> getURLParameters(args.url, urlParameters[1],
                                                              args.patternSpec))
                            @@ pathItem
                       ELSE pathItem,
          securitySchemes |-> mapped.securitySchemes],
       seen400Responses |-> mapped.seen400Responses,
       seen422Responses |-> mapped.seen422Responses]

\* Object.assign(target, source)
ObjectAssignKeepingTarget(target, source) == target @@ source

ObjectAssign(target, source) == source @@ target

\* paths.forEach(({ securitySchemes }) => Object.assign(...)), from entry i
RECURSIVE AssignSecuritySchemes(_, _, _)
AssignSecuritySchemes(paths, i, allSecuritySchemes) ==
  IF i > Len(paths) THEN allSecuritySchemes
  ELSE AssignSecuritySchemes(paths, i + 1,
                             ObjectAssign(allSecuritySchemes, paths[i].securitySchemes))

\* if (Object.keys(components).length > 0) doc.components = components
WithComponentsAlways(doc, components) == ("components" :> components) @@ doc

WithComponents(doc, components) ==
  IF Cardinality(DOMAIN components) > 0
  THEN ("components" :> components) @@ doc
  ELSE doc

createFinalMetadata(info, paths) ==
  LET allSecuritySchemes == AssignSecuritySchemes(paths, 1, <<>>)
      components ==
        IF Cardinality(DOMAIN allSecuritySchemes) > 0
        THEN "securitySchemes" :> allSecuritySchemes
        ELSE <<>>
      doc == ("openapi" :> "3.0.3")
             @@ ("info" :> info)
             @@ ("paths" :> FromEntries([i \in 1..Len(paths) |->
                                          Entry(paths[i].pattern, paths[i].pathItem)]))
  IN  WithComponents(doc, components)

(***************************************************************************)
(* utils.ts.  The document given to removeAuthenticatedOperations lives in *)
(* a store of objects: an object is a function from its keys to values,    *)
(* and the document, its paths, the path items, the operations and the     *)
(* components are held by reference, so that identity and copying are      *)
(* observable.  The security of an operation is None for undefined or      *)
(* Some(array).                                                            *)
(***************************************************************************)
Ptr(n) == [ref |-> n]
\* an undefined path item
NoObject == Ptr(0)
\* allocation of a new object
NewObject(h, obj) == [h |-> Append(h, obj), ref |-> Ptr(Len(h) + 1)]
\* const { key: _, ...rest } = obj
Rest(obj, keys) == [key \in (DOMAIN obj) \ keys |-> obj[key]]

\* Object.values(openapi.HttpMethods)
HttpMethods ==
  <<"get", "put", "post", "delete", "options", "head", "patch", "trace">>
\* the order of the keys of the paths of a document
PathKeys == <<"/a", "/b", "/c", "", "/api/{id}", "/api/{id}/{sub}">>

\* the filter removeAuthenticatedOperations gives
IsAuthenticatedWhenSeveral(operation) ==
  /\ "security" \in DOMAIN operation
  /\ operation["security"] # None
  /\ Len(operation["security"][1]) > 1
  /\ \A i \in 1..Len(operation["security"][1]) :
       DOMAIN operation["security"][1][i] # {}

IsAuthenticated(operation) ==
  /\ "security" \in DOMAIN operation
  /\ operation["security"] # None
  /\ Len(operation["security"][1]) > 0
  /\ \A i \in 1..Len(operation["security"][1]) :
       DOMAIN operation["security"][1][i] # {}

\* the transform removeAuthenticatedOperations gives
WithoutSecurityKeepingEmpty(h, operation) ==
  NewObject(h, IF "security" \in DOMAIN h[operation.ref]
                  /\ h[operation.ref]["security"] = Some(<<>>)
               THEN h[operation.ref]
               ELSE Rest(h[operation.ref], {"security"}))

WithoutSecurity(h, operation) ==
  NewObject(h, Rest(h[operation.ref], {"security"}))

\* methodsInPath.filter(...).map(([method, operation]) => [method,
\* transform(operation)]), from method i onwards
RECURSIVE MethodsToPreserve(_, _, _, _, _)
MethodsToPreserve(h, pathObject, methodsInPath, i, preserved) ==
  IF i > Len(methodsInPath) THEN [h |-> h, map |-> preserved]
  ELSE LET operation == h[pathObject.ref][methodsInPath[i]]
       IN  IF IsAuthenticated(h[operation.ref])
           THEN MethodsToPreserve(h, pathObject, methodsInPath, i + 1, preserved)
           ELSE LET Map(transformed) ==
                      MethodsToPreserve(transformed.h, pathObject, methodsInPath, i + 1,
                                        (methodsInPath[i] :> transformed.ref) @@ preserved)
                IN  Map(WithoutSecurity(h, operation))

preserveOperationsInPlace(h, pathObject, methodsInPath, methodsToPreserve) ==
  LET removed == {methodsInPath[i] : i \in 1..Len(methodsInPath)}
                   \ DOMAIN methodsToPreserve
  IN  [h |-> [h EXCEPT ![pathObject.ref] =
                methodsToPreserve @@ Rest(h[pathObject.ref], removed)],
       ref |-> pathObject]

preserveOperations(h, pathObject, methodsInPath, methodsToPreserve) ==
  LET removed == {methodsInPath[i] : i \in 1..Len(methodsInPath)}
                   \ DOMAIN methodsToPreserve
  IN  NewObject(h, methodsToPreserve @@ Rest(h[pathObject.ref], removed))

\* what the generator yields for the paths from the i-th key onwards
RECURSIVE YieldPaths(_, _, _, _)
YieldPaths(h, paths, keys, i) ==
  IF i > Len(keys) THEN [h |-> h, yielded |-> <<>>]
  ELSE LET pathObject == h[paths.ref][keys[i]]
           methodsInPath ==
             IF pathObject = NoObject THEN <<>>
             ELSE SelectSeq(HttpMethods,
                            LAMBDA method : method \in DOMAIN h[pathObject.ref])
           \* the rest of the loop, after the path object or its exclusion
           Yield(exclude, pathObjectOrExclude, rest) ==
             [h |-> rest.h,
              yielded |->
                IF exclude THEN rest.yielded
                ELSE <<[key |-> keys[i],
                        pathObject |-> pathObjectOrExclude.ref,
                        modified |-> pathObjectOrExclude.ref # pathObject]>>
                     \o rest.yielded]
           Continue(exclude, pathObjectOrExclude) ==
             Yield(exclude, pathObjectOrExclude,
                   YieldPaths(pathObjectOrExclude.h, paths, keys, i + 1))
           Preserve(kept) ==
             Continue(pathObject # NoObject
                        /\ DOMAIN kept.map = {} /\ Len(methodsInPath) > 0,
                      IF pathObject # NoObject /\ DOMAIN kept.map # {}
                      THEN preserveOperations(kept.h, pathObject, methodsInPath, kept.map)
                      ELSE [h |-> kept.h, ref |-> pathObject])
       IN  Preserve(MethodsToPreserve(h, pathObject, methodsInPath, 1, <<>>))

removeOperationsMatchingFilter(h, metadata) ==
  LET paths == h[metadata.ref]["paths"]
  IN  YieldPaths(h, paths,
                 SelectSeq(PathKeys, LAMBDA key : key \in DOMAIN h[paths.ref]), 1)

removeSecuritySchemesKeepingComponents(h, doc) ==
  LET components ==
        IF "components" \in DOMAIN h[doc.ref] THEN h[doc.ref]["components"]
        ELSE NoObject
      Assemble(remaining, otherComponents) ==
        NewObject(otherComponents.h,
                  ("components" :> otherComponents.ref)
                  @@ otherComponents.h[remaining.ref.ref])
      Clean(remaining) ==
        IF components # NoObject /\ "securitySchemes" \in DOMAIN h[components.ref]
        THEN Assemble(remaining,
                      NewObject(remaining.h,
                                Rest(h[components.ref], {"securitySchemes"})))
        ELSE [h |-> remaining.h, ref |-> doc]
  IN  Clean(NewObject(h, Rest(h[doc.ref], {"components"})))

removeSecuritySchemes(h, doc) ==
  LET components ==
        IF "components" \in DOMAIN h[doc.ref] THEN h[doc.ref]["components"]
        ELSE NoObject
      \* components = otherComponents, or {} when nothing else is left
      Assemble(remaining, replaced) ==
        IF DOMAIN replaced.h[replaced.ref.ref] = {}
        THEN [h |-> replaced.h, ref |-> remaining.ref]
        ELSE NewObject(replaced.h,
                       ("components" :> replaced.ref)
                       @@ replaced.h[remaining.ref.ref])
      Replace(remaining, otherComponents) ==
        Assemble(remaining,
                 IF DOMAIN otherComponents.h[otherComponents.ref.ref] # {}
                 THEN otherComponents
                 ELSE NewObject(otherComponents.h, <<>>))
      Clean(remaining) ==
        IF components # NoObject /\ "securitySchemes" \in DOMAIN h[components.ref]
        THEN Replace(remaining,
                     NewObject(remaining.h,
                               Rest(h[components.ref], {"securitySchemes"})))
        ELSE [h |-> remaining.h, ref |-> doc]
  IN  Clean(NewObject(h, Rest(h[doc.ref], {"components"})))

\* what removeAuthenticatedOperations returns: undefined, or a document
Undefined == [defined |-> FALSE, ref |-> NoObject]
Document(doc) == [defined |-> TRUE, ref |-> doc]

removeAuthenticatedOperations(h, metadata) ==
  LET originalPathsLength == Cardinality(DOMAIN h[h[metadata.ref]["paths"].ref])
      Return(cleaned) == [h |-> cleaned.h, returned |-> Document(cleaned.ref)]
      \* { ...metadata, paths }
      Spread(paths) ==
        NewObject(paths.h, ("paths" :> paths.ref) @@ paths.h[metadata.ref])
      Clean(doc) == Return(removeSecuritySchemes(doc.h, doc.ref))
      \* Object.fromEntries(unauthenticatedPaths.map(...))
      Paths(unauthenticated, unauthenticatedPaths) ==
        NewObject(unauthenticated.h,
                  [key \in {unauthenticatedPaths[i].key :
                              i \in 1..Len(unauthenticatedPaths)} |->
                     (CHOOSE y \in {unauthenticatedPaths[i] :
                                      i \in 1..Len(unauthenticatedPaths)} :
                        y.key = key).pathObject])
      Decide(unauthenticated, unauthenticatedPaths) ==
        IF \/ originalPathsLength > Len(unauthenticatedPaths)
           \/ \E i \in 1..Len(unauthenticatedPaths) : unauthenticatedPaths[i].modified
        THEN IF Len(unauthenticatedPaths) > 0
             THEN Clean(Spread(Paths(unauthenticated, unauthenticatedPaths)))
             ELSE [h |-> unauthenticated.h, returned |-> Undefined]
        ELSE Return(removeSecuritySchemes(unauthenticated.h, metadata))
      Collect(unauthenticated) == Decide(unauthenticated, unauthenticated.yielded)
  IN  Collect(removeOperationsMatchingFilter(h, metadata))

(***************************************************************************)
(* Input schemas (JSONSchema7Definition values), described as trees and    *)
(* then laid out on the heap.                                              *)
(***************************************************************************)
TVal(v) == [k |-> "val", v |-> v, f |-> <<>>, e |-> <<>>]
TObj(f) == [k |-> "obj", v |-> Absent, f |-> f, e |-> <<>>]
TArr(e) == [k |-> "arr", v |-> Absent, f |-> <<>>, e |-> e]

TTrue == TVal(Bool(TRUE))
TFalse == TVal(Bool(FALSE))

\* schemas without sub-schemas
Leaves ==
  { TTrue, TFalse, TObj(<<>>),
    TObj("type" :> TVal(Prim(1))),
    TObj("type" :> TVal(Undef)),
    TObj("enum" :> TArr(<<TVal(Prim(1))>>)),
    TObj("const" :> TVal(Prim(1))),
    TObj("const" :> TVal(Undef)),
    TObj("const" :> TVal(Prim(1)) @@ "enum" :> TArr(<<TVal(Prim(1)), TVal(Prim(2))>>)) }

\* what follows the first element of a generated array
RECURSIVE Fillers(_)
Fillers(n) ==
  IF n = 0 THEN {<<>>}
  ELSE Fillers(n - 1)
         \cup {Append(e, b) : e \in Fillers(n - 1), b \in {TTrue, TFalse}}

\* the values a key of a schema object can hold, given the sub-schemas
Holds(key, subs, wide) ==
  (IF key \in SingleKeys THEN subs ELSE {})
  \cup (IF key \in ArrayKeys
        THEN {TArr(<<s>> \o e) :
                s \in subs, e \in IF wide THEN Fillers(MaxArrLen - 1) ELSE {<<>>}}
        ELSE {})
  \cup (IF key \in RecordKeys
        THEN {TObj("p" :> s) : s \in subs}
             \cup (IF wide
                   THEN {TObj("p" :> s @@ "q" :> b) :
                           s \in subs, b \in {TFalse, TVal(Undef)}}
                   ELSE {})
        ELSE {})
  \cup (IF key = "dependencies" /\ wide
        THEN {TObj("p" :> TArr(<<TVal(Prim(1))>>) @@ "q" :> s) : s \in subs}
        ELSE {})

\* the keys used below the outermost level: one per handler and shape
NestKeys == {"not", "anyOf", "definitions"}

RECURSIVE Inner(_)
Inner(d) ==
  IF d = 0 THEN Leaves
  ELSE Leaves \cup UNION {{TObj(key :> c) : c \in Holds(key, Inner(d - 1), FALSE)} :
                            key \in NestKeys}

Bases == {<<>>, "const" :> TVal(Prim(2)) @@ "type" :> TVal(Prim(1))}

InputSchemas ==
  Leaves
  \cup UNION {{TObj(base @@ key :> c) :
                 base \in Bases, c \in Holds(key, Inner(MaxDepth - 1), TRUE)} :
                key \in SchemaKeys}
  \cup {TObj("additionalItems" :> s @@ "additionalProperties" :> t) :
          s \in Leaves, t \in Leaves}

\* the keys of KeyOrder that are in the set, in that order
KeysIn(keys) == SelectSeq(KeyOrder, LAMBDA key : key \in keys)

RECURSIVE Alloc(_, _)
RECURSIVE AllocFields(_, _, _, _, _)
RECURSIVE AllocElems(_, _, _, _)
AllocFields(h, f, keys, i, fields) ==
  IF i > Len(keys) THEN New(h, ObjCell(fields))
  ELSE LET r == Alloc(h, f[keys[i]])
       IN  AllocFields(r.h, f, keys, i + 1, [fields EXCEPT ![keys[i]] = r.v])
AllocElems(h, e, i, elems) ==
  IF i > Len(e) THEN New(h, ArrCell(elems))
  ELSE LET r == Alloc(h, e[i])
       IN  AllocElems(r.h, e, i + 1, Append(elems, r.v))
\* the heap after building the value the tree describes, and the value
Alloc(h, tree) ==
  IF tree.k = "val" THEN [h |-> h, v |-> tree.v]
  ELSE IF tree.k = "obj" THEN AllocFields(h, tree.f, KeysIn(DOMAIN tree.f), 1, NoFields)
       ELSE AllocElems(h, tree.e, 1, <<>>)

\* the value as a tree: what deep equality compares
RECURSIVE Deep(_, _)
Deep(h, v) ==
  IF v.t # "ref" THEN TVal(v)
  ELSE IF h[v.n].k = "arr"
       THEN TArr([i \in 1..Len(h[v.n].e) |-> Deep(h, h[v.n].e[i])])
       ELSE TObj([key \in {x \in AllKeys : h[v.n].f[x] # Absent} |->
                    Deep(h, h[v.n].f[key])])

(***************************************************************************)
(* The converter as a state machine: a caller converts a schema, then      *)
(* converts the result once more.                                          *)
(***************************************************************************)
\* nothing converted, and no schema to convert
ConvIdle ==
  /\ heap = <<>>
  /\ before = <<>>
  /\ input = Undef
  /\ result = Undef
  /\ result2 = Undef
  /\ cpc = "idle"

\* afterDefiningURLEndpoints not called yet
ProvIdle ==
  /\ urlArgs = None
  /\ definedEndpoints = None
  /\ pathEntry = None
  /\ seen400Responses = <<>>
  /\ seen422Responses = <<>>
  /\ ppc = "start"

\* no path entry collected
FinalIdle ==
  /\ pathEntries = <<>>
  /\ finalDoc = <<>>
  /\ fpc = "collecting"

\* no document given to removeAuthenticatedOperations
UtilIdle ==
  /\ store = <<>>
  /\ storeBefore = <<>>
  /\ givenDoc = NoObject
  /\ stripped = Undefined
  /\ restripped = Undefined
  /\ spc = "idle"

ConvInit ==
  /\ \E tree \in InputSchemas :
       LET built == Alloc(<<>>, tree)
       IN  /\ heap = built.h
           /\ before = built.h
           /\ input = built.v
           /\ result = Undef
           /\ result2 = Undef
           /\ cpc = "start"
  /\ ProvIdle
  /\ FinalIdle
  /\ UtilIdle

Convert ==
  /\ cpc = "start"
  /\ LET r == convertToOpenAPISchemaObject(heap, input)
     IN  /\ heap' = r.h
         /\ result' = r.v
  /\ before' = heap
  /\ cpc' = "converted"
  /\ UNCHANGED <<input, result2, provVars, finalVars, utilVars>>

Reconvert ==
  /\ cpc = "converted"
  /\ LET r == convertToOpenAPISchemaObject(heap, result)
     IN  /\ heap' = r.h
         /\ result2' = r.v
  /\ before' = heap
  /\ cpc' = "reconverted"
  /\ UNCHANGED <<input, result, provVars, finalVars, utilVars>>

ConvNext == Convert \/ Reconvert

SpecConv == ConvInit /\ [][ConvNext]_vars

(***************************************************************************)
(* Properties of the converter.                                            *)
(***************************************************************************)
\* the result of the latest conversion
LastResult == IF cpc = "reconverted" THEN result2 ELSE result

\* v, at a position that holds a schema, is no boolean, and neither is any
\* position below it that holds a schema
RECURSIVE NoBooleanSchema(_, _)
NoBooleanSchema(h, v) ==
  /\ v.t # "boolean"
  /\ v.t = "ref" =>
       \A key \in SchemaKeys :
         LET x == h[v.n].f[key]
         IN  \/ x \in {Absent, Undef}
             \/ /\ key \in RecordKeys
                /\ x.t = "ref"
                /\ \A name \in AllKeys :
                     LET y == h[x.n].f[name]
                     IN  \/ y \in {Absent, Undef}
                         \/ IsArray(h, y)
                         \/ NoBooleanSchema(h, y)
             \/ /\ key \notin RecordKeys
                /\ IsArray(h, x)
                /\ \A i \in 1..Len(h[x.n].e) : NoBooleanSchema(h, h[x.n].e[i])
             \/ /\ key \notin RecordKeys
                /\ ~IsArray(h, x)
                /\ NoBooleanSchema(h, x)

\* a boolean holds some position of the value, at whatever depth
RECURSIVE HasBoolean(_)
HasBoolean(tree) ==
  \/ tree.k = "val" /\ tree.v.t = "boolean"
  \/ \E key \in DOMAIN tree.f : HasBoolean(tree.f[key])
  \/ \E i \in DOMAIN tree.e : HasBoolean(tree.e[i])

\* C1: the converter never returns or embeds a boolean schema: true becomes
\* {}, false becomes {not: {}}, and no position of a converted schema that
\* holds a schema, at any depth, in arrays and keyed collections too, is a
\* boolean.
C1_NoBooleanSchema ==
  cpc # "start" =>
    /\ NoBooleanSchema(heap, LastResult)
    /\ input = Bool(TRUE) => Deep(heap, result) = TObj(<<>>)
    /\ input = Bool(FALSE) => Deep(heap, result) = TObj("not" :> TObj(<<>>))

\* a schema with a boolean two levels down, inside an array inside a keyed
\* collection, has been converted
C1_Witness ==
  /\ cpc = "converted"
  /\ Deep(before, input) =
       TObj("properties" :> TObj("p" :> TObj("anyOf" :> TArr(<<TFalse>>))))
  /\ Deep(heap, result) =
       TObj("properties" :> TObj("p" :> TObj("anyOf" :>
              TArr(<<TObj("not" :> TObj(<<>>))>>))))

\* C2: a schema with const = v, v not undefined, converts to one whose enum
\* is the one-element list [v] and which has no const; a schema whose const
\* is undefined converts to one with neither const nor enum.
C2_ConstElimination ==
  (cpc = "converted" /\ input.t = "ref" /\ before[input.n].f["const"] # Absent) =>
    LET c == before[input.n].f["const"]
        r == heap[result.n].f
    IN  IF c # Undef
        THEN /\ r["const"] = Absent
             /\ IsArray(heap, r["enum"])
             /\ heap[r["enum"].n].e = <<c>>
        ELSE /\ r["const"] = Absent
             /\ r["enum"] = Absent

\* C3: converting the result of a conversion gives a value deep-equal to it.
C3_Idempotent ==
  cpc = "reconverted" => Deep(heap, result2) = Deep(heap, result)

\* a schema the first conversion changed, with additionalItems, was
\* converted twice
C3_Witness ==
  /\ cpc = "reconverted"
  /\ input.t = "ref"
  /\ Deep(heap, input) # Deep(heap, result)
  /\ heap[input.n].f["additionalItems"] = Bool(FALSE)
  /\ heap[input.n].f["additionalProperties"] = Bool(TRUE)

\* the objects, records and arrays at and below a position holding a schema
RECURSIVE SchemaAddrs(_, _)
SchemaAddrs(h, v) ==
  IF v.t # "ref" THEN {}
  ELSE {v.n} \cup UNION {
         LET x == h[v.n].f[key]
         IN  IF x.t # "ref" THEN {}
             ELSE IF key \in RecordKeys
                  THEN {x.n} \cup UNION {
                         IF IsArray(h, h[x.n].f[name]) THEN {}
                         ELSE SchemaAddrs(h, h[x.n].f[name]) : name \in AllKeys}
                  ELSE IF IsArray(h, x)
                       THEN {x.n} \cup UNION {SchemaAddrs(h, h[x.n].e[i]) :
                                                i \in 1..Len(h[x.n].e)}
                       ELSE SchemaAddrs(h, x)
         : key \in SchemaKeys}

\* C4: a conversion leaves every object, record and array that existed
\* before the call as it was, and the result and every sub-schema of it
\* under a converted key is an object created by the call.
C4_NoMutation ==
  cpc # "start" =>
    /\ \A a \in 1..Len(before) : heap[a] = before[a]
    /\ \A a \in SchemaAddrs(heap, LastResult) : a > Len(before)

\* a schema with a keyed collection holding a boolean, an undefined and a
\* nested schema has been converted
C4_Witness ==
  /\ cpc = "converted"
  /\ input.t = "ref"
  /\ \E key \in RecordKeys :
       /\ heap[input.n].f[key].t = "ref"
       /\ heap[heap[input.n].f[key].n].f["p"].t = "ref"
       /\ heap[heap[input.n].f[key].n].f["q"] = Bool(FALSE)
       /\ heap[heap[result.n].f[key].n].f["q"].t = "ref"

\* nothing to modify: no boolean, no const key, no undefined at any level
RECURSIVE NothingToModify(_)
NothingToModify(tree) ==
  /\ tree.k = "val" => tree.v.t = "primitive"
  /\ "const" \notin DOMAIN tree.f
  /\ \A key \in DOMAIN tree.f : NothingToModify(tree.f[key])
  /\ \A i \in DOMAIN tree.e : NothingToModify(tree.e[i])

\* C5: a schema object without boolean sub-schema, const key or undefined
\* value at any level converts to a value deep-equal to it.
C5_NothingToModify ==
  (cpc = "converted" /\ input.t = "ref" /\ NothingToModify(Deep(before, input))) =>
    Deep(heap, result) = Deep(before, input)

\* what handleSchemaOrArray makes of a value of the schema given, as a tree
ConvertedValue(value) ==
  Deep(handleSchemaOrArray(before, value).h, handleSchemaOrArray(before, value).v)

\* C26: the additionalProperties of the conversion of a schema object is the
\* converted value of the additionalItems of the schema, absent when the
\* schema has no additionalItems; the additionalProperties of the schema
\* is not in the output.
C26_AdditionalPropertiesWiring ==
  (cpc = "converted" /\ input.t = "ref") =>
    IF Get(before, input.n, "additionalItems") = Undef
    THEN heap[result.n].f["additionalProperties"] = Absent
    ELSE /\ heap[result.n].f["additionalProperties"] # Absent
         /\ Deep(heap, heap[result.n].f["additionalProperties"])
              = ConvertedValue(Get(before, input.n, "additionalItems"))

\* a schema of additionalItems: false and additionalProperties: true is
\* converted to one of additionalProperties: {not: {}}
C26_Witness ==
  /\ cpc = "converted"
  /\ input.t = "ref"
  /\ Get(before, input.n, "additionalItems") = Bool(FALSE)
  /\ Get(before, input.n, "additionalProperties") = Bool(TRUE)
  /\ Deep(heap, heap[result.n].f["additionalProperties"]) = TObj("not" :> TObj(<<>>))

\* a schema of additionalProperties alone is converted to one without
C26_WitnessDropped ==
  /\ cpc = "converted"
  /\ input.t = "ref"
  /\ Get(before, input.n, "additionalItems") = Undef
  /\ Get(before, input.n, "additionalProperties") # Undef
  /\ heap[result.n].f["additionalProperties"] = Absent

(***************************************************************************)
(* Endpoints given to the provider.                                        *)
(***************************************************************************)
ContentTypes == {"application/json", "text/plain", "text/html"}

\* the validators of a body of a content type, with what the callbacks
\* answer for them
BodyValidators(contentType) ==
  {[id |-> contentType, undefinedPossibility |-> u, hasSchema |-> hasSchema] :
     u \in {"true", "false", "unknown"}, hasSchema \in BOOLEAN}

RECURSIVE ContentsOfLen(_)
ContentsOfLen(n) ==
  IF n = 0 THEN {<<>>}
  ELSE {Append(c, Entry(ct, v)) :
          c \in ContentsOfLen(n - 1), ct \in ContentTypes, v \in BodyValidators("body")}
\* the contents of a body: content types in declaration order, each with
\* its validator
AllContents ==
  {c \in UNION {ContentsOfLen(n) : n \in 0..MaxContents} :
     \A i, j \in 1..Len(c) : i # j => c[i].key # c[j].key}

MediaTypesOf(contents) ==
  [ct \in Keys(contents) |-> [example |-> Some("example of " \o ct)]]

ParamNames == <<"alpha", "beta", "gamma", "delta">>
\* request headers or query parameters: undeclared, or declared with the
\* first n names
ParamSpecs ==
  {None}
  \cup {Some([i \in 1..n |->
               Entry(ParamNames[i],
                     [required |-> (i % 2 = r), decoder |-> [id |-> ParamNames[i]]])]) :
          n \in 0..MaxParams, r \in {0, 1}}
ParamMDOf(paramSpec) ==
  IF paramSpec = None THEN None
  ELSE Some([name \in Keys(paramSpec[1]) |->
               "description" :> "description of " \o name])

ResponseHeaderSpecs ==
  {None,
   Some(<<Entry("x-rate", [required |-> TRUE, encoder |-> [id |-> "x-rate"]]),
          Entry("x-page", [required |-> FALSE, encoder |-> [id |-> "x-page"]])>>)}

UrlNames == <<"id", "sub", "tag">>
Text(text) == [isString |-> TRUE, text |-> text, name |-> ""]
Param(name) == [isString |-> FALSE, text |-> "", name |-> name]
RECURSIVE PatternOf(_)
PatternOf(n) ==
  IF n = 0 THEN <<Text("/api")>>
  ELSE PatternOf(n - 1) \o <<Text("/"), Param(UrlNames[n])>>
\* the orders in which the metadata of the first n URL parameters is given
RECURSIVE Orders(_)
Orders(n) ==
  IF n = 0 THEN {<<>>}
  ELSE UNION {{SubSeq(o, 1, k) \o <<UrlNames[n]>> \o SubSeq(o, k + 1, n - 1) :
                 k \in 0..(n - 1)} : o \in Orders(n - 1)}
URLArgsOf(patternSpec, order, pathItem) ==
  [patternSpec |-> patternSpec,
   url |-> [name \in {order[i] : i \in 1..Len(order)} |->
              [decoder |-> [id |-> name], regExp |-> "[^/]+"]],
   md |-> [pathItem |-> pathItem,
           url |-> Some([i \in 1..Len(order) |->
                           Entry(order[i], "description" :> "description of " \o order[i])])]]
NoURLParameters ==
  {[patternSpec |-> <<>>, url |-> <<>>, md |-> [pathItem |-> <<>>, url |-> Some(<<>>)]],
   [patternSpec |-> <<Text("/api")>>, url |-> <<>>,
    md |-> [pathItem |-> "summary" :> "Will perform its task", url |-> None]]}
AllURLArgs ==
  NoURLParameters
  \cup UNION {{URLArgsOf(p, order, "description" :> "Endpoint at some URL") :
                  p \in {PatternOf(Len(order)),
                         PatternOf(Len(order)) \o <<Text("/again/"), Param(UrlNames[1])>>}} :
                order \in UNION {Orders(n) : n \in 1..MaxUrlParams}}

SchemeIDs == {"auth", "key"}
\* the usages of security schemes: the same ID comes with different schemes
\* and requirement data
Usages ==
  {[schemeID |-> id,
    scheme |-> [type |-> "http", scheme |-> IF optional THEN "bearer" ELSE "basic"],
    requirementData |-> IF optional THEN <<>> ELSE <<"read:" \o id>>,
    isOptional |-> optional] : id \in SchemeIDs, optional \in BOOLEAN}
RECURSIVE SeqsUpTo(_, _)
SeqsUpTo(S, n) ==
  IF n = 0 THEN {<<>>}
  ELSE SeqsUpTo(S, n - 1)
         \cup {Append(q, x) : q \in SeqsUpTo(S, n - 1), x \in S}
\* what the security callback returns
\* the responses the security callback gives for a failed authentication
IfFailedResponses ==
  {"description" :> "Authentication failed",
   ("description" :> "No valid credentials") @@ ("headers" :> <<>>)}
SecurityInfos ==
  {None}
  \cup {Some([securitySchemes |-> groups, ifFailed |-> ifFailed]) :
          groups \in SeqsUpTo(SeqsUpTo(Usages, MaxUsages), MaxGroups),
          ifFailed \in IfFailedResponses}

\* no security, or one group of one usage
OneUsageInfos ==
  {None}
  \cup {Some([securitySchemes |-> <<<<usage>>>>,
              ifFailed |-> "description" :> "Authentication failed"]) :
          usage \in Usages}

CustomizationKinds == {"none", "record-only", "description", "replace"}

DefaultContents ==
  <<Entry("application/json",
          [id |-> "body", undefinedPossibility |-> "false", hasSchema |-> TRUE])>>

\* an endpoint of a method: its specification and its metadata
EndpointOf(method, operation, responseContents, responseHeaders, requestHeaders, query, requestBody, security, customize400, customize422) ==
  Entry(method,
    [spec |-> [method |-> method,
               responseBody |-> [contents |-> responseContents],
               responseHeaders |-> responseHeaders,
               requestHeaders |-> requestHeaders,
               query |-> query,
               requestBody |-> IF requestBody = None THEN None
                               ELSE Some([contents |-> requestBody[1]]),
               stateInfo |-> security],
     md |-> [operation |-> operation,
             responseBody |-> [description |-> "outputDescription",
                               mediaTypes |-> MediaTypesOf(responseContents)],
             responseHeaders |-> ParamMDOf(responseHeaders),
             headers |-> ParamMDOf(requestHeaders),
             query |-> ParamMDOf(query),
             requestBody |-> IF requestBody = None THEN None
                             ELSE Some(MediaTypesOf(requestBody[1])),
             customize400Response |-> customize400,
             customize422Response |-> customize422]])

PlainURL == CHOOSE a \in NoURLParameters : a.patternSpec = <<>>
OneParamURL == URLArgsOf(PatternOf(1), <<UrlNames[1]>>, "description" :> "Endpoint at some URL")
OperationMD == "description" :> "operation-description"

\* the arguments of afterDefiningURLEndpoints: URL arguments and endpoints
ResponseInputs ==
  {[args |-> PlainURL,
    endpoints |-> <<EndpointOf("GET", operation, contents, responseHeaders,
                               None, None, None, None, "none", "none")>>] :
     operation \in {<<>>, OperationMD}, contents \in AllContents,
     responseHeaders \in ResponseHeaderSpecs}
RequestBodyInputs ==
  {[args |-> args,
    endpoints |-> <<EndpointOf("POST", OperationMD, DefaultContents, None,
                               None, None, requestBody, None, customize400, customize422)>>] :
     args \in {PlainURL, OneParamURL},
     requestBody \in {None} \cup {Some(c) : c \in AllContents},
     customize400 \in {"none", "description"},
     customize422 \in CustomizationKinds}
ParameterInputs ==
  {[args |-> args,
    endpoints |-> <<EndpointOf("PUT", OperationMD, DefaultContents, None,
                               requestHeaders, query, requestBody, None,
                               customize400, customize422)>>] :
     args \in AllURLArgs, requestHeaders \in ParamSpecs, query \in ParamSpecs,
     requestBody \in {None, Some(DefaultContents)},
     customize400 \in CustomizationKinds,
     customize422 \in {"none", "replace"}}
SecurityInputs ==
  {[args |-> args,
    endpoints |-> <<EndpointOf("GET", <<>>, DefaultContents, None,
                               None, None, None, security, customize400, "none")>>] :
     args \in {PlainURL, OneParamURL}, security \in SecurityInfos,
     customize400 \in {"none", "record-only"}}
MethodsInputs ==
  {[args |-> args, endpoints |-> <<>>] : args \in AllURLArgs}
  \cup {[args |-> args,
         endpoints |-> <<EndpointOf("POST", OperationMD, DefaultContents, None,
                                    None, query, Some(DefaultContents), security1,
                                    customize, customize),
                         EndpointOf("GET", <<>>, DefaultContents, None,
                                    None, None, None, security2, customize, "none")>>] :
          args \in {PlainURL, OneParamURL},
          query \in {None, Some(<<Entry("alpha", [required |-> TRUE,
                                                  decoder |-> [id |-> "alpha"]])>>)},
          security1 \in OneUsageInfos, security2 \in OneUsageInfos,
          customize \in {"none", "description"}}
\* response headers of operations that have other responses as well
ResponseHeaderInputs ==
  {[args |-> args,
    endpoints |-> <<EndpointOf("POST", OperationMD, contents, responseHeaders,
                               None, None, requestBody, security, customize, customize)>>] :
     args \in {PlainURL, OneParamURL},
     contents \in {DefaultContents,
                   <<Entry("text/plain", [id |-> "body", undefinedPossibility |-> "unknown",
                                          hasSchema |-> TRUE])>>},
     responseHeaders \in ResponseHeaderSpecs,
     requestBody \in {None, Some(DefaultContents)},
     security \in OneUsageInfos,
     customize \in {"none", "record-only"}}
ProviderInputs ==
  ResponseInputs \cup RequestBodyInputs \cup ParameterInputs
  \cup SecurityInputs \cup MethodsInputs \cup ResponseHeaderInputs

(***************************************************************************)
(* The provider as a state machine: a caller defines the endpoints of a    *)
(* URL.                                                                    *)
(***************************************************************************)
ProvInit == ConvIdle /\ ProvIdle /\ FinalIdle /\ UtilIdle

DefineURLEndpoints(inputs) ==
  /\ ppc = "start"
  /\ \E given \in inputs :
       LET r == afterDefiningURLEndpoints(given.args, given.endpoints)
       IN  /\ urlArgs' = Some(given.args)
           /\ definedEndpoints' = Some(given.endpoints)
           /\ pathEntry' = Some(r.entry)
           /\ seen400Responses' = r.seen400Responses
           /\ seen422Responses' = r.seen422Responses
  /\ ppc' = "defined"
  /\ UNCHANGED <<convVars, finalVars, utilVars>>

ProvNext == DefineURLEndpoints(ProviderInputs)

SpecProv == ProvInit /\ [][ProvNext]_vars

(***************************************************************************)
(* Properties of the operations built by afterDefiningURLEndpoints.        *)
(***************************************************************************)
Defined == ppc = "defined"
\* the endpoints the caller gave, and the operation built for the i-th
Given == definedEndpoints[1]
MethodOf(i) == ToLowerCase(Given[i].key)
OperationOf(i) == pathEntry[1].pathItem[MethodOf(i)]
ResponsesOf(i) == OperationOf(i)["responses"]
Has(obj, key) == key \in DOMAIN obj

\* C6: the 204 response exists iff some oracle value of the response body's
\* content types is not false, the 200 response exists iff some is not
\* true, the content of the 200 response has exactly the content types whose
\* oracle value is not true, in declaration order, and the 204 response has
\* no content.
C6_ResponseSplit ==
  Defined =>
    \A i \in 1..Len(Given) :
      LET contents == Given[i].val.spec.responseBody.contents
          oracle(j) == contents[j].val.undefinedPossibility
          kept == SelectSeq([j \in 1..Len(contents) |-> j],
                            LAMBDA j : oracle(j) # "true")
          content == ResponsesOf(i)["200"]["content"]
      IN  /\ Has(ResponsesOf(i), "204")
               <=> \E j \in 1..Len(contents) : oracle(j) # "false"
          /\ Has(ResponsesOf(i), "200")
               <=> \E j \in 1..Len(contents) : oracle(j) # "true"
          /\ Has(ResponsesOf(i), "200") =>
               [k \in 1..Len(content) |-> content[k].key]
                 = [k \in 1..Len(kept) |-> contents[kept[k]].key]
          /\ Has(ResponsesOf(i), "204") => ~Has(ResponsesOf(i)["204"], "content")

\* a response body of one content type that is always undefined and a later
\* one that may be: both responses, and the content has the later one only
C6_Witness ==
  /\ Defined
  /\ \E i \in 1..Len(Given) :
       LET contents == Given[i].val.spec.responseBody.contents
       IN  /\ Len(contents) = 2
           /\ contents[1].val.undefinedPossibility = "true"
           /\ contents[2].val.undefinedPossibility = "unknown"
           /\ Has(ResponsesOf(i), "204")
           /\ Has(ResponsesOf(i), "200")
           /\ Len(ResponsesOf(i)["200"]["content"]) = 1

\* C7: an operation has a 422 response and a requestBody if and only if a
\* request body is declared for it, and without a customization callback the
\* 422 response is exactly {description: "If request body validation fails."}.
C7_Gating422 ==
  Defined =>
    \A i \in 1..Len(Given) :
      LET declared == Given[i].val.spec.requestBody # None
      IN  /\ Has(ResponsesOf(i), "422") <=> declared
          /\ Has(OperationOf(i), "requestBody") <=> declared
          /\ declared /\ Given[i].val.md.customize422Response = "none" =>
               ResponsesOf(i)["422"]
                 = [description |-> "If request body validation fails."]

\* a path of an operation with a request body and one without
C7_Witness ==
  /\ Defined
  /\ \E i, j \in 1..Len(Given) :
       /\ Given[i].val.spec.requestBody # None
       /\ Given[i].val.md.customize422Response = "none"
       /\ Has(ResponsesOf(i), "422")
       /\ Given[j].val.spec.requestBody = None
       /\ ~Has(ResponsesOf(j), "422")

\* the parameters the caller declared
HasPathParameters ==
  \E k \in 1..Len(urlArgs[1].patternSpec) : ~urlArgs[1].patternSpec[k].isString
HasQuery(i) ==
  Given[i].val.spec.query # None /\ Len(Given[i].val.spec.query[1]) > 0
HasHeaders(i) ==
  Given[i].val.spec.requestHeaders # None
  /\ Len(Given[i].val.spec.requestHeaders[1]) > 0
\* the description of the 400 response, written out for each combination
Description400(url, query, headers) ==
  CASE url /\ query /\ headers ->
         "If URL path parameters or query or request headers fail validation."
    [] url /\ query /\ ~headers -> "If URL path parameters or query fail validation."
    [] url /\ ~query /\ headers ->
         "If URL path parameters or request headers fail validation."
    [] url /\ ~query /\ ~headers -> "If URL path parameters fail validation."
    [] ~url /\ query /\ headers -> "If query or request headers fail validation."
    [] ~url /\ query /\ ~headers -> "If query fail validation."
    [] ~url /\ ~query /\ headers -> "If request headers fail validation."

\* C8: an operation has a 400 response if and only if the URL pattern has
\* path parameters or the operation has a query parameter or a request
\* header parameter, and without customization its description names exactly
\* those, in the order URL path parameters, query, request headers.
C8_Gating400 ==
  Defined =>
    \A i \in 1..Len(Given) :
      LET applies == HasPathParameters \/ HasQuery(i) \/ HasHeaders(i)
      IN  /\ Has(ResponsesOf(i), "400") <=> applies
          /\ applies /\ Given[i].val.md.customize400Response = "none" =>
               ResponsesOf(i)["400"]
                 = [description |->
                      Description400(HasPathParameters, HasQuery(i), HasHeaders(i))]

\* an operation with path parameters and query parameters, and declared
\* request headers of no parameter
C8_Witness ==
  /\ Defined
  /\ \E i \in 1..Len(Given) :
       /\ HasPathParameters
       /\ HasQuery(i)
       /\ Given[i].val.spec.requestHeaders = Some(<<>>)
       /\ Given[i].val.md.customize400Response = "none"
       /\ ResponsesOf(i)["400"]
            = [description |-> "If URL path parameters or query fail validation."]

\* the drafts of the responses, as generated
Draft422 == [description |-> "If request body validation fails."]
Draft400(i) ==
  [description |-> Description400(HasPathParameters, HasQuery(i), HasHeaders(i))]
\* what the callback of a kind answers when given the draft
Answer(kind, draft, code) == CustomizeResponse(kind, draft, code).returned
\* the callback, where supplied, was called once with the draft if the
\* response was emitted and not at all if it was not, and the response
\* emitted is what it returned, or the draft if it returned undefined
CallbackHonoured(kind, seen, responses, code, draft) ==
  /\ seen = IF Has(responses, code) /\ kind # "none" THEN <<draft>> ELSE <<>>
  /\ Has(responses, code) /\ kind # "none" =>
       responses[code] = IF Answer(kind, draft, code) = None THEN draft
                         ELSE Answer(kind, draft, code)[1]

\* C9: customize400Response and customize422Response are called exactly
\* once with the generated draft when the response of their code is emitted
\* and never otherwise; the response emitted is the draft if the callback
\* returns undefined, and the returned object if it returns one.
C9_Customization ==
  Defined =>
    \A i \in 1..Len(Given) :
      /\ CallbackHonoured(Given[i].val.md.customize400Response,
                          seen400Responses[MethodOf(i)], ResponsesOf(i), "400",
                          IF Has(ResponsesOf(i), "400") THEN Draft400(i) ELSE <<>>)
      /\ CallbackHonoured(Given[i].val.md.customize422Response,
                          seen422Responses[MethodOf(i)], ResponsesOf(i), "422",
                          Draft422)

\* an operation whose 400 callback returns another object and whose 422
\* callback was supplied and never called
C9_Witness ==
  /\ Defined
  /\ \E i \in 1..Len(Given) :
       /\ Given[i].val.md.customize400Response = "replace"
       /\ Len(seen400Responses[MethodOf(i)]) = 1
       /\ ResponsesOf(i)["400"] = [description |-> "Replaced 400 response"]
       /\ Given[i].val.md.customize422Response = "replace"
       /\ seen422Responses[MethodOf(i)] = <<>>
       /\ ~Has(ResponsesOf(i), "422")

\* the usage groups the security callback returned for the i-th endpoint
GroupsOf(i) ==
  IF Given[i].val.spec.stateInfo = None THEN <<>>
  ELSE Given[i].val.spec.stateInfo[1].securitySchemes
AnyOptional(groups) ==
  \E g \in 1..Len(groups) : \E u \in 1..Len(groups[g]) : groups[g][u].isOptional
\* the requirement maps the scheme IDs of the group, each to the requirement
\* data of its usage (of its last usage, if the group uses it twice)
RequirementOf(requirement, group) ==
  /\ DOMAIN requirement = {group[u].schemeID : u \in 1..Len(group)}
  /\ \A u \in 1..Len(group) :
       (\A w \in (u + 1)..Len(group) : group[w].schemeID # group[u].schemeID)
         => requirement[group[u].schemeID] = group[u].requirementData

\* C10: with n >= 1 usage groups, the security array has a requirement
\* object of each group in the callback's order, after an empty requirement
\* at element 0 if some usage of some group is optional (length n + 1), and
\* nothing else (length n) if none is.
C10_SecurityOptionality ==
  Defined =>
    \A i \in 1..Len(Given) :
      Len(GroupsOf(i)) >= 1 =>
        LET groups == GroupsOf(i)
            security == OperationOf(i)["security"]
            inserted == IF AnyOptional(groups) THEN 1 ELSE 0
        IN  /\ Has(OperationOf(i), "security")
            /\ Len(security) = Len(groups) + inserted
            /\ AnyOptional(groups) => security[1] = <<>>
            /\ \A g \in 1..Len(groups) :
                 RequirementOf(security[g + inserted], groups[g])

\* two groups, the second with an optional usage: three requirements, the
\* first empty and the second not
C10_Witness ==
  /\ Defined
  /\ \E i \in 1..Len(Given) :
       /\ Len(GroupsOf(i)) = 2
       /\ Len(GroupsOf(i)[1]) >= 1
       /\ ~AnyOptional(<<GroupsOf(i)[1]>>)
       /\ AnyOptional(<<GroupsOf(i)[2]>>)
       /\ Len(OperationOf(i)["security"]) = 3
       /\ OperationOf(i)["security"][1] = <<>>
       /\ OperationOf(i)["security"][2] # <<>>

\* C11: an operation has a 401 response and a security key if and only if
\* the security callback returned a result with at least one usage group,
\* and the 401 response is the ifFailed response the callback returned.
C11_Gating401 ==
  Defined =>
    \A i \in 1..Len(Given) :
      LET applies == Len(GroupsOf(i)) >= 1
      IN  /\ Has(ResponsesOf(i), "401") <=> applies
          /\ Has(OperationOf(i), "security") <=> applies
          /\ applies => ResponsesOf(i)["401"] = Given[i].val.spec.stateInfo[1].ifFailed

\* a path of an operation whose callback returned no usage group and an
\* ifFailed response, and of one whose callback returned a group
C11_Witness ==
  /\ Defined
  /\ \E i, j \in 1..Len(Given) :
       /\ Len(GroupsOf(i)) >= 1
       /\ Has(ResponsesOf(i), "401")
       /\ Has(OperationOf(i), "security")
       /\ Given[j].val.spec.stateInfo = None
       /\ ~Has(ResponsesOf(j), "401")
       /\ ~Has(OperationOf(j), "security")

\* the callback returned a result of no usage group
C11_WitnessEmpty ==
  /\ Defined
  /\ \E i \in 1..Len(Given) :
       /\ Given[i].val.spec.stateInfo # None
       /\ Len(GroupsOf(i)) = 0
       /\ ~Has(ResponsesOf(i), "401")

\* the URL parameters the metadata declares, in the order of the mapping
DeclaredURLParameters ==
  IF urlArgs[1].md.url = None THEN <<>>
  ELSE [i \in 1..Len(urlArgs[1].md.url[1]) |-> urlArgs[1].md.url[1][i].key]
\* the place in the URL pattern where the parameter occurs first
FirstOccurrence(name) ==
  CHOOSE k \in 1..Len(urlArgs[1].patternSpec) :
    /\ ~urlArgs[1].patternSpec[k].isString
    /\ urlArgs[1].patternSpec[k].name = name
    /\ \A j \in 1..(k - 1) :
         urlArgs[1].patternSpec[j].isString \/ urlArgs[1].patternSpec[j].name # name
PathParameters == pathEntry[1].pathItem["parameters"]

\* C20: the path item has a parameters list iff the metadata declares URL
\* parameters; the list has exactly one parameter per declared URL parameter,
\* each in: "path" and required: true; and of any two of them the one whose
\* first occurrence in the URL pattern comes first precedes the other,
\* whatever the order in which the metadata mapping declares them.
C20_PathParameterOrder ==
  Defined =>
    LET declared == DeclaredURLParameters
    IN  IF Len(declared) = 0 THEN ~Has(pathEntry[1].pathItem, "parameters")
        ELSE /\ Has(pathEntry[1].pathItem, "parameters")
             /\ Len(PathParameters) = Len(declared)
             /\ \A i \in 1..Len(declared) :
                  Cardinality({k \in 1..Len(PathParameters) :
                                 PathParameters[k]["name"] = declared[i]}) = 1
             /\ \A k \in 1..Len(PathParameters) :
                  /\ PathParameters[k]["in"] = "path"
                  /\ PathParameters[k]["required"] = TRUE
             /\ \A k, l \in 1..Len(PathParameters) :
                  k < l <=> FirstOccurrence(PathParameters[k]["name"])
                              < FirstOccurrence(PathParameters[l]["name"])

\* the metadata declares sub before id, the pattern has id before sub and
\* once more after it, and the parameters are id, then sub
C20_Witness ==
  /\ Defined
  /\ DeclaredURLParameters = <<"sub", "id">>
  /\ urlArgs[1].patternSpec
       = PatternOf(2) \o <<Text("/again/"), Param("id")>>
  /\ Has(pathEntry[1].pathItem, "parameters")
  /\ [k \in 1..Len(PathParameters) |-> PathParameters[k]["name"]] = <<"id", "sub">>

\* no URL parameter is declared and the path item has no parameters
C20_WitnessNone ==
  /\ Defined
  /\ Len(DeclaredURLParameters) = 0
  /\ ~Has(pathEntry[1].pathItem, "parameters")

\* the first n segments of the URL pattern, written out
RECURSIVE RenderedPrefix(_)
RenderedPrefix(n) ==
  IF n = 0 THEN ""
  ELSE RenderedPrefix(n - 1)
         \o (IF urlArgs[1].patternSpec[n].isString THEN urlArgs[1].patternSpec[n].text
             ELSE "{" \o urlArgs[1].patternSpec[n].name \o "}")

\* C21: the pattern of the path entry is the concatenation, in the order of
\* the URL pattern, of each literal segment as it is and of each parameter
\* segment as {name}; the empty pattern gives the empty string.
C21_RenderedPath ==
  Defined =>
    /\ pathEntry[1].pattern = RenderedPrefix(Len(urlArgs[1].patternSpec))
    /\ urlArgs[1].patternSpec = <<>> => pathEntry[1].pattern = ""

\* a pattern of literals and parameters, one of them twice
C21_Witness ==
  /\ Defined
  /\ urlArgs[1].patternSpec = PatternOf(2) \o <<Text("/again/"), Param("id")>>
  /\ pathEntry[1].pattern = "/api/{id}/{sub}/again/{id}"

\* the empty pattern
C21_WitnessEmpty ==
  /\ Defined
  /\ urlArgs[1].patternSpec = <<>>
  /\ pathEntry[1].pattern = ""

\* the contents the request body of the i-th endpoint declares
RequestContentsOf(i) == Given[i].val.spec.requestBody[1].contents

\* C22: of a declared request body, required is true iff the oracle value of
\* every content type is exactly false (true and unknown both make it
\* false), and content has one entry per declared content type, in the
\* order of declaration.
C22_RequestBodyRequired ==
  Defined =>
    \A i \in 1..Len(Given) :
      Given[i].val.spec.requestBody # None =>
        /\ Has(OperationOf(i), "requestBody")
        /\ OperationOf(i)["requestBody"]["required"]
             = (\A k \in 1..Len(RequestContentsOf(i)) :
                  RequestContentsOf(i)[k].val.undefinedPossibility = "false")
        /\ Len(OperationOf(i)["requestBody"]["content"]) = Len(RequestContentsOf(i))
        /\ \A k \in 1..Len(RequestContentsOf(i)) :
             OperationOf(i)["requestBody"]["content"][k].key = RequestContentsOf(i)[k].key

\* two content types, one never absent and one of unknown possibility: the
\* request body is not required and has both content types in order
C22_Witness ==
  /\ Defined
  /\ \E i \in 1..Len(Given) :
       /\ Given[i].val.spec.requestBody # None
       /\ Len(RequestContentsOf(i)) = 2
       /\ RequestContentsOf(i)[1].val.undefinedPossibility = "false"
       /\ RequestContentsOf(i)[2].val.undefinedPossibility = "unknown"
       /\ OperationOf(i)["requestBody"]["required"] = FALSE
       /\ Len(OperationOf(i)["requestBody"]["content"]) = 2

\* all content types never absent: the request body is required
C22_WitnessRequired ==
  /\ Defined
  /\ \E i \in 1..Len(Given) :
       /\ Given[i].val.spec.requestBody # None
       /\ Len(RequestContentsOf(i)) = 2
       /\ \A k \in 1..2 : RequestContentsOf(i)[k].val.undefinedPossibility = "false"
       /\ OperationOf(i)["requestBody"]["required"] = TRUE

\* the request headers and the query entries the i-th endpoint declares
DeclaredHeaders(i) ==
  IF Given[i].val.spec.requestHeaders = None THEN <<>>
  ELSE Given[i].val.spec.requestHeaders[1]
DeclaredQuery(i) ==
  IF Given[i].val.spec.query = None THEN <<>> ELSE Given[i].val.spec.query[1]
\* the parameter object is the one of the declared entry
IsParameterOf(parameter, place, entry) ==
  /\ parameter["in"] = place
  /\ parameter["name"] = entry.key
  /\ parameter["required"] = entry.val.required
  /\ parameter["schema"] = stringDecoder(entry.val.decoder)

\* C23: the parameters of an operation are one in: "header" parameter per
\* declared request header, in declaration order, followed by one
\* in: "query" parameter per declared query entry, in declaration order,
\* each with the name, required flag and schema of its specification; the
\* parameters key is absent when no header and no query entry is declared.
C23_OperationParameters ==
  Defined =>
    \A i \in 1..Len(Given) :
      LET headers == DeclaredHeaders(i)
          query == DeclaredQuery(i)
      IN  IF Len(headers) + Len(query) = 0 THEN ~Has(OperationOf(i), "parameters")
          ELSE /\ Has(OperationOf(i), "parameters")
               /\ Len(OperationOf(i)["parameters"]) = Len(headers) + Len(query)
               /\ \A k \in 1..Len(headers) :
                    IsParameterOf(OperationOf(i)["parameters"][k], "header", headers[k])
               /\ \A k \in 1..Len(query) :
                    IsParameterOf(OperationOf(i)["parameters"][Len(headers) + k],
                                  "query", query[k])

\* request headers and query entries are declared, and the parameters are
\* the header parameters followed by the query parameters
C23_Witness ==
  /\ Defined
  /\ \E i \in 1..Len(Given) :
       /\ Len(DeclaredHeaders(i)) = 2
       /\ Len(DeclaredQuery(i)) = 1
       /\ Len(OperationOf(i)["parameters"]) = 3
       /\ OperationOf(i)["parameters"][1]["in"] = "header"
       /\ OperationOf(i)["parameters"][2]["in"] = "header"
       /\ OperationOf(i)["parameters"][3]["in"] = "query"

\* request headers and a query are declared without entries
C23_WitnessNone ==
  /\ Defined
  /\ \E i \in 1..Len(Given) :
       /\ Given[i].val.spec.requestHeaders = Some(<<>>)
       /\ Given[i].val.spec.query = Some(<<>>)
       /\ ~Has(OperationOf(i), "parameters")

\* the headers map of the declared response headers of the i-th endpoint
DeclaredResponseHeaders(i) == Given[i].val.spec.responseHeaders[1]
CarriesResponseHeaders(i, response) ==
  /\ Has(response, "headers")
  /\ Len(response["headers"]) = Len(DeclaredResponseHeaders(i))
  /\ \A k \in 1..Len(DeclaredResponseHeaders(i)) :
       LET declared == DeclaredResponseHeaders(i)[k]
           header == response["headers"][k]
       IN  /\ header.key = declared.key
           /\ header.val["required"] = declared.val.required
           /\ header.val["schema"] = stringEncoder(declared.val.encoder)
           /\ \A key \in DOMAIN Given[i].val.md.responseHeaders[1][declared.key] :
                key \notin {"required", "schema"} =>
                  /\ Has(header.val, key)
                  /\ header.val[key] = Given[i].val.md.responseHeaders[1][declared.key][key]

\* C24 as stated: where response headers are specified, every response of
\* the operation, whatever its code, carries the headers map of the
\* declared response headers.
C24_EveryResponseCarriesHeaders ==
  Defined =>
    \A i \in 1..Len(Given) :
      Given[i].val.spec.responseHeaders # None =>
        \A code \in DOMAIN ResponsesOf(i) : CarriesResponseHeaders(i, ResponsesOf(i)[code])

\* C24: where response headers are specified, the responses 200 and 204 of
\* the operation carry a headers map with one entry per declared response
\* header (its required flag, the schema of its encoder, its metadata), the
\* same for both; the responses 400 and 422 emitted as drafted have none.
C24_ResponseHeaders ==
  Defined =>
    \A i \in 1..Len(Given) :
      Given[i].val.spec.responseHeaders # None =>
        /\ \A code \in DOMAIN ResponsesOf(i) \cap {"200", "204"} :
             CarriesResponseHeaders(i, ResponsesOf(i)[code])
        /\ Has(ResponsesOf(i), "200") /\ Has(ResponsesOf(i), "204") =>
             ResponsesOf(i)["200"]["headers"] = ResponsesOf(i)["204"]["headers"]
        /\ Has(ResponsesOf(i), "400") /\ Given[i].val.md.customize400Response = "none" =>
             ~Has(ResponsesOf(i)["400"], "headers")
        /\ Has(ResponsesOf(i), "422") /\ Given[i].val.md.customize422Response = "none" =>
             ~Has(ResponsesOf(i)["422"], "headers")

\* response headers are specified, 200 and 204 carry them and the response
\* 422 of the same operation does not
C24_Witness ==
  /\ Defined
  /\ \E i \in 1..Len(Given) :
       /\ Given[i].val.spec.responseHeaders # None
       /\ Has(ResponsesOf(i), "200")
       /\ Has(ResponsesOf(i), "204")
       /\ Len(ResponsesOf(i)["200"]["headers"]) = 2
       /\ Len(ResponsesOf(i)["204"]["headers"]) = 2
       /\ Has(ResponsesOf(i), "422")
       /\ ~Has(ResponsesOf(i)["422"], "headers")

\* the media type entries emitted for the content entries given to the
\* schema generation callback of the name
SchemaOmittedOrGiven(contents, content, generateJSONSchema) ==
  /\ Len(content) = Len(contents)
  /\ \A k \in 1..Len(contents) :
       LET schema == GenerateAnyJSONSchema(generateJSONSchema, contents[k].key,
                                           contents[k].val)
       IN  /\ content[k].key = contents[k].key
           /\ schema = None => ~Has(content[k].val, "schema")
           /\ schema # None => /\ Has(content[k].val, "schema")
                               /\ content[k].val["schema"] = schema[1]
\* the content entries of the response body emitted under 200
Response200Contents(i) ==
  SelectSeq(Given[i].val.spec.responseBody.contents,
            LAMBDA e : e.val.undefinedPossibility # "true")

\* C25: for every content type of a request body or of a response body the
\* media type entry is emitted; it has no schema key when the schema
\* generation callback returned undefined, and the returned schema as its
\* schema otherwise.
C25_MissingSchemaOmitted ==
  Defined =>
    \A i \in 1..Len(Given) :
      /\ Given[i].val.spec.requestBody # None =>
           SchemaOmittedOrGiven(RequestContentsOf(i),
                                OperationOf(i)["requestBody"]["content"],
                                "generateDecoderJSONSchema")
      /\ Has(ResponsesOf(i), "200") =>
           SchemaOmittedOrGiven(Response200Contents(i),
                                ResponsesOf(i)["200"]["content"],
                                "generateEncoderJSONSchema")
      /\ Len(Response200Contents(i)) > 0 => Has(ResponsesOf(i), "200")

\* a request body of a content type without schema and one with, and a
\* response body of a content type without schema
C25_Witness ==
  /\ Defined
  /\ \E i \in 1..Len(Given) :
       /\ Given[i].val.spec.requestBody # None
       /\ Len(RequestContentsOf(i)) = 2
       /\ ~RequestContentsOf(i)[1].val.hasSchema
       /\ RequestContentsOf(i)[2].val.hasSchema
       /\ ~Has(OperationOf(i)["requestBody"]["content"][1].val, "schema")
       /\ Has(OperationOf(i)["requestBody"]["content"][2].val, "schema")
       /\ Has(OperationOf(i)["requestBody"]["content"][1].val, "example")

C25_WitnessResponse ==
  /\ Defined
  /\ \E i \in 1..Len(Given) :
       /\ Has(ResponsesOf(i), "200")
       /\ Len(ResponsesOf(i)["200"]["content"]) = 1
       /\ ~Given[i].val.spec.responseBody.contents[1].val.hasSchema
       /\ ~Has(ResponsesOf(i)["200"]["content"][1].val, "schema")

(***************************************************************************)
(* The document as a state machine: a caller collects the path entries of  *)
(* some URLs and creates the final metadata of them.                       *)
(***************************************************************************)
\* path entries given to one call of createFinalMetadata
MaxPaths == 2

Infos ==
  {[title |-> "Title", version |-> "0.0.1"],
   [title |-> "Other", version |-> "1.0.0", description |-> "Another API"]}

SecurityOf(groups) ==
  Some([securitySchemes |-> groups,
        ifFailed |-> "description" :> "Authentication failed"])
UsageOf(schemeID, isOptional) ==
  CHOOSE usage \in Usages : usage.schemeID = schemeID /\ usage.isOptional = isOptional
GetEndpoint(security) ==
  EndpointOf("GET", <<>>, DefaultContents, None, None, None, None, security, "none", "none")
PostEndpoint(security) ==
  EndpointOf("POST", OperationMD, DefaultContents, None, None, None, Some(DefaultContents), security, "none", "none")

\* the URLs a caller defines before creating the final metadata: without
\* endpoints, with endpoints of no security, and with endpoints whose
\* usages share scheme IDs within a path and across paths
FinalInputs ==
  {[args |-> PlainURL, endpoints |-> <<>>],
   [args |-> OneParamURL, endpoints |-> <<>>],
   [args |-> PlainURL, endpoints |-> <<GetEndpoint(None)>>],
   [args |-> OneParamURL, endpoints |-> <<GetEndpoint(SecurityOf(<<>>))>>],
   [args |-> PlainURL,
    endpoints |-> <<GetEndpoint(SecurityOf(<<<<UsageOf("auth", FALSE)>>>>))>>],
   [args |-> OneParamURL,
    endpoints |-> <<GetEndpoint(SecurityOf(<<<<UsageOf("auth", TRUE)>>>>))>>],
   [args |-> URLArgsOf(PatternOf(2), <<UrlNames[2], UrlNames[1]>>, <<>>),
    endpoints |-> <<GetEndpoint(SecurityOf(<<<<UsageOf("key", FALSE)>>,
                                             <<UsageOf("auth", TRUE),
                                               UsageOf("key", TRUE)>>>>))>>],
   [args |-> OneParamURL,
    endpoints |-> <<PostEndpoint(SecurityOf(<<<<UsageOf("auth", TRUE)>>>>)),
                    GetEndpoint(SecurityOf(<<<<UsageOf("auth", FALSE)>>>>))>>],
   [args |-> PlainURL,
    endpoints |-> <<PostEndpoint(None),
                    GetEndpoint(SecurityOf(<<<<UsageOf("key", TRUE)>>>>))>>],
   [args |-> URLArgsOf(PatternOf(2), <<UrlNames[1], UrlNames[2]>>, <<>>),
    endpoints |-> <<PostEndpoint(SecurityOf(<<<<>>, <<UsageOf("auth", FALSE)>>>>)),
                    GetEndpoint(SecurityOf(<<<<UsageOf("key", FALSE)>>>>))>>]}

FinalInit == ConvIdle /\ ProvIdle /\ FinalIdle /\ UtilIdle

\* the caller defines the endpoints of one more URL and keeps the entry
CollectPathEntry(inputs) ==
  /\ fpc = "collecting"
  /\ Len(pathEntries) < MaxPaths
  /\ \E given \in inputs :
       pathEntries' =
         Append(pathEntries,
                [given |-> given,
                 entry |-> afterDefiningURLEndpoints(given.args, given.endpoints).entry])
  /\ UNCHANGED <<finalDoc, fpc, convVars, provVars, utilVars>>

CreateFinalMetadata ==
  /\ fpc = "collecting"
  /\ \E info \in Infos :
       finalDoc' =
         Some([info |-> info,
               doc |-> createFinalMetadata(info,
                         [p \in 1..Len(pathEntries) |-> pathEntries[p].entry])])
  /\ fpc' = "created"
  /\ UNCHANGED <<pathEntries, convVars, provVars, utilVars>>

FinalNext == CollectPathEntry(FinalInputs) \/ CreateFinalMetadata

SpecFinal == FinalInit /\ [][FinalNext]_vars

(***************************************************************************)
(* Properties of the document created by createFinalMetadata.              *)
(***************************************************************************)
Created == fpc = "created"
Doc == finalDoc[1].doc
\* the scheme usages of an endpoint, of a path entry and of all of them, in
\* the order of path entries, methods, groups and usages
UsagesOfEndpoint(endpoint) ==
  IF endpoint.val.spec.stateInfo = None THEN <<>>
  ELSE Flat(endpoint.val.spec.stateInfo[1].securitySchemes)
UsagesOfPath(p) ==
  Flat([i \in 1..Len(pathEntries[p].given.endpoints) |->
          UsagesOfEndpoint(pathEntries[p].given.endpoints[i])])
TraversedUsages == Flat([p \in 1..Len(pathEntries) |-> UsagesOfPath(p)])
\* components.securitySchemes of the document, empty when it has none
SchemesOfDoc ==
  IF Has(Doc, "components") /\ Has(Doc["components"], "securitySchemes")
  THEN Doc["components"]["securitySchemes"]
  ELSE <<>>

\* C12: the keys of components.securitySchemes are the scheme IDs of all
\* scheme usages of all operations of all path entries, and each ID has the
\* scheme of the last usage with that ID in the order of path entries,
\* methods, groups and usages.
C12_SchemeAggregation ==
  Created =>
    LET usages == TraversedUsages
    IN  /\ DOMAIN SchemesOfDoc = {usages[k].schemeID : k \in 1..Len(usages)}
        /\ \A k \in 1..Len(usages) :
             (\A w \in (k + 1)..Len(usages) : usages[w].schemeID # usages[k].schemeID)
               => SchemesOfDoc[usages[k].schemeID] = usages[k].scheme

\* two path entries using one scheme ID with different schemes: the document
\* has the scheme of the later entry
C12_Witness ==
  /\ Created
  /\ Len(pathEntries) = 2
  /\ \E k \in 1..Len(UsagesOfPath(1)) : \E w \in 1..Len(UsagesOfPath(2)) :
       /\ UsagesOfPath(1)[k].schemeID = "auth"
       /\ UsagesOfPath(2)[w].schemeID = "auth"
       /\ UsagesOfPath(1)[k].scheme # UsagesOfPath(2)[w].scheme
       /\ \A v \in 1..Len(UsagesOfPath(2)) :
            UsagesOfPath(2)[v].schemeID = "auth"
              => UsagesOfPath(2)[v].scheme = UsagesOfPath(2)[w].scheme
       /\ SchemesOfDoc["auth"] = UsagesOfPath(2)[w].scheme

\* C13: the document has openapi = "3.0.3" and the info given, it has
\* components if and only if some path entry registered a security scheme,
\* and of no path entry it is exactly {openapi, info, paths: {}}.
C13_FinalizationStamp ==
  Created =>
    /\ Doc["openapi"] = "3.0.3"
    /\ Doc["info"] = finalDoc[1].info
    /\ Has(Doc, "components") <=> TraversedUsages # <<>>
    /\ pathEntries = <<>> =>
         Doc = ("openapi" :> "3.0.3") @@ ("info" :> finalDoc[1].info)
               @@ ("paths" :> <<>>)

\* path entries with operations and no scheme usage: a document of paths
\* and no components
C13_Witness ==
  /\ Created
  /\ Len(pathEntries) = 2
  /\ \A p \in 1..Len(pathEntries) : Len(pathEntries[p].given.endpoints) > 0
  /\ TraversedUsages = <<>>
  /\ DOMAIN Doc = {"openapi", "info", "paths"}
  /\ Doc["paths"] # <<>>

\* C14: path entries of URLs without endpoints add no key to the paths of
\* the document, so the document of such entries only is the document of no
\* path entries.
C14_EmptyMethodSetsSkipped ==
  Created /\ (\A p \in 1..Len(pathEntries) : pathEntries[p].given.endpoints = <<>>)
    => Doc = createFinalMetadata(finalDoc[1].info, <<>>)

\* the methods of a path item of the document
MethodsOfPathItem(pathItem) ==
  {method \in {"get", "post", "put", "delete"} : Has(pathItem, method)}
\* the scheme IDs the security of an operation names
SchemeIDsNamed(operation) ==
  IF Has(operation, "security")
  THEN UNION {DOMAIN operation["security"][k] : k \in 1..Len(operation["security"])}
  ELSE {}

\* C27: every scheme ID that is a key of a requirement object of the
\* security of an operation of the document is a key of
\* components.securitySchemes of the document.
C27_SecurityReferentialIntegrity ==
  Created =>
    \A pattern \in DOMAIN Doc["paths"] :
      \A method \in MethodsOfPathItem(Doc["paths"][pattern]) :
        SchemeIDsNamed(Doc["paths"][pattern][method]) \subseteq DOMAIN SchemesOfDoc

\* an operation whose security names two scheme IDs in one requirement,
\* and both are in the components of the document
C27_Witness ==
  /\ Created
  /\ \E pattern \in DOMAIN Doc["paths"] :
       \E method \in MethodsOfPathItem(Doc["paths"][pattern]) :
         /\ Has(Doc["paths"][pattern][method], "security")
         /\ \E k \in 1..Len(Doc["paths"][pattern][method]["security"]) :
              DOMAIN Doc["paths"][pattern][method]["security"][k] = {"auth", "key"}
  /\ DOMAIN SchemesOfDoc = {"auth", "key"}

\* the path entries of the pattern, in the order they were given
EntriesOfPattern(pattern) ==
  SelectSeq([p \in 1..Len(pathEntries) |-> pathEntries[p].entry],
            LAMBDA entry : entry.pattern = pattern)

\* C30: the paths of the document have one key per pattern of the path
\* entries, whose value is the path item of the last entry of that pattern,
\* without the operations of earlier entries of the pattern; the security
\* schemes of all entries, the earlier ones included, are in the components.
C30_LaterPathItemWins ==
  Created =>
    /\ DOMAIN Doc["paths"] = {pathEntries[p].entry.pattern : p \in 1..Len(pathEntries)}
    /\ \A pattern \in DOMAIN Doc["paths"] :
         Doc["paths"][pattern]
           = EntriesOfPattern(pattern)[Len(EntriesOfPattern(pattern))].pathItem
    /\ \A p \in 1..Len(pathEntries) :
         DOMAIN pathEntries[p].entry.securitySchemes \subseteq DOMAIN SchemesOfDoc

\* two path entries of one pattern: the first has a get operation and the
\* scheme auth, the second post and get operations and the scheme key; the
\* document has the path item of the second and both schemes
C30_Witness ==
  /\ Created
  /\ Len(pathEntries) = 2
  /\ pathEntries[1].entry.pattern = pathEntries[2].entry.pattern
  /\ DOMAIN pathEntries[1].entry.securitySchemes = {"auth"}
  /\ DOMAIN pathEntries[2].entry.securitySchemes = {"key"}
  /\ MethodsOfPathItem(pathEntries[2].entry.pathItem) = {"get", "post"}
  /\ pathEntries[1].entry.pathItem # pathEntries[2].entry.pathItem
  /\ Cardinality(DOMAIN Doc["paths"]) = 1
  /\ Doc["paths"][pathEntries[2].entry.pattern] = pathEntries[2].entry.pathItem
  /\ DOMAIN SchemesOfDoc = {"auth", "key"}

(***************************************************************************)
(* Documents given to removeAuthenticatedOperations.                       *)
(***************************************************************************)
\* alternatives of the security of an operation
MaxAlternatives == 2
\* paths of a document
MaxDocPaths == 2

\* security requirement objects: none required, and requiring a scheme
Requirements == {<<>>, "auth" :> <<>>, "key" :> <<"read">>}
\* an operation: without security, with security undefined, with an array
Operations ==
  {"responses" :> <<>>,
   ("responses" :> <<>>) @@ ("security" :> None)}
  \cup {("responses" :> <<>>) @@ ("security" :> Some(alternatives)) :
          alternatives \in SeqsUpTo(Requirements, MaxAlternatives)}
FewOperations ==
  {"responses" :> <<>>,
   ("responses" :> <<>>) @@ ("description" :> "op") @@ ("security" :> Some(<<>>)),
   ("responses" :> <<>>) @@ ("security" :> Some(<<"auth" :> <<>>>>)),
   ("responses" :> <<>>) @@ ("security" :> Some(<<<<>>, "auth" :> <<>>>>))}
\* a path item: its operations by method, and its other keys
PathItemOf(operations, other) == Some([operations |-> operations, other |-> other])
PathItems ==
  {None, PathItemOf(<<>>, <<>>), PathItemOf(<<>>, "summary" :> "Nothing here")}
  \cup {PathItemOf("get" :> operation, "summary" :> "One") :
          operation \in Operations}
  \cup {PathItemOf(("get" :> operation1) @@ ("post" :> operation2), <<>>) :
          operation1 \in FewOperations, operation2 \in FewOperations}
FewPathItems ==
  {None, PathItemOf(<<>>, <<>>)}
  \cup {PathItemOf("post" :> operation, <<>>) : operation \in FewOperations}
\* the paths of a document: path items under the first keys
PathsOfLen(n) ==
  IF n = 0 THEN {<<>>}
  ELSE IF n = 1 THEN {<<item>> : item \in PathItems}
       ELSE {items \in SeqsUpTo(FewPathItems, n) : Len(items) = n}
Components ==
  {None,
   Some(<<>>),
   Some("requestBodies" :> <<>>),
   Some("securitySchemes" :> <<>>),
   Some("securitySchemes" :> ("auth" :> [type |-> "http", scheme |-> "bearer"])),
   Some(("requestBodies" :> <<>>)
        @@ ("securitySchemes" :> ("auth" :> [type |-> "http", scheme |-> "bearer"])))}
Common == ("openapi" :> "0.0.0") @@ ("info" :> [title |-> "Title", version |-> "0.0.0"])
\* the documents: the common part, paths, and components where given
Documents ==
  {[common |-> Common, paths |-> items, components |-> components] :
     items \in UNION {PathsOfLen(n) : n \in 0..MaxDocPaths},
     components \in Components}

\* the objects of the operations of a path item, from method i onwards
RECURSIVE StoreOperations(_, _, _, _)
StoreOperations(h, operations, methods, i) ==
  IF i > Len(methods) THEN [h |-> h, map |-> <<>>]
  ELSE LET stored == NewObject(h, operations[methods[i]])
           rest == StoreOperations(stored.h, operations, methods, i + 1)
       IN  [h |-> rest.h, map |-> (methods[i] :> stored.ref) @@ rest.map]
StorePathItem(h, item) ==
  IF item = None THEN [h |-> h, ref |-> NoObject]
  ELSE LET methods == SelectSeq(HttpMethods,
                                LAMBDA method : method \in DOMAIN item[1].operations)
           stored == StoreOperations(h, item[1].operations, methods, 1)
       IN  NewObject(stored.h, stored.map @@ item[1].other)
RECURSIVE StorePathItems(_, _, _)
StorePathItems(h, items, i) ==
  IF i > Len(items) THEN [h |-> h, map |-> <<>>]
  ELSE LET stored == StorePathItem(h, items[i])
           rest == StorePathItems(stored.h, items, i + 1)
       IN  [h |-> rest.h, map |-> (PathKeys[i] :> stored.ref) @@ rest.map]
\* the objects of a document
StoreDocument(h, document) ==
  LET items == StorePathItems(h, document.paths, 1)
      paths == NewObject(items.h, items.map)
      common == ("paths" :> paths.ref) @@ document.common
  IN  IF document.components = None THEN NewObject(paths.h, common)
      ELSE LET components == NewObject(paths.h, document.components[1])
           IN  NewObject(components.h, ("components" :> components.ref) @@ common)

(***************************************************************************)
(* The utilities as a state machine: a caller removes the authenticated    *)
(* operations of a document, and then those of the document returned.      *)
(***************************************************************************)
UtilInit ==
  /\ \E stored \in {StoreDocument(<<>>, document) : document \in Documents} :
       /\ store = stored.h
       /\ storeBefore = stored.h
       /\ givenDoc = stored.ref
  /\ stripped = Undefined
  /\ restripped = Undefined
  /\ spc = "given"
  /\ ConvIdle
  /\ ProvIdle
  /\ FinalIdle

RemoveAuthenticatedOperations ==
  /\ spc = "given"
  /\ \E called \in {removeAuthenticatedOperations(store, givenDoc)} :
       /\ store' = called.h
       /\ stripped' = called.returned
  /\ storeBefore' = store
  /\ spc' = "removed"
  /\ UNCHANGED <<givenDoc, restripped, convVars, provVars, finalVars>>

RemoveAgain ==
  /\ spc = "removed"
  /\ stripped.defined
  /\ \E called \in {removeAuthenticatedOperations(store, stripped.ref)} :
       /\ store' = called.h
       /\ restripped' = called.returned
  /\ storeBefore' = store
  /\ spc' = "removed again"
  /\ UNCHANGED <<givenDoc, stripped, convVars, provVars, finalVars>>

UtilNext == RemoveAuthenticatedOperations \/ RemoveAgain

SpecUtil == UtilInit /\ [][UtilNext]_vars

(***************************************************************************)
(* The document of createFinalMetadata given to                            *)
(* removeAuthenticatedOperations: a caller collects path entries, creates  *)
(* the final metadata and removes the authenticated operations of it.      *)
(***************************************************************************)
\* an operation of the document as an object of the store
OperationObjectOf(operation) ==
  IF "security" \in DOMAIN operation
  THEN ("security" :> Some(operation["security"])) @@ operation
  ELSE operation
\* a path item of the document: its operations by method, its other keys
PathItemObjectOf(pathItem) ==
  PathItemOf([method \in {HttpMethods[i] : i \in 1..Len(HttpMethods)}
                            \cap DOMAIN pathItem |->
                OperationObjectOf(pathItem[method])],
             Rest(pathItem, {HttpMethods[i] : i \in 1..Len(HttpMethods)}))
\* the objects of the path items of the keys from the i-th onwards
RECURSIVE StoreFinalPathItems(_, _, _, _)
StoreFinalPathItems(h, paths, keys, i) ==
  IF i > Len(keys) THEN [h |-> h, map |-> <<>>]
  ELSE LET Add(stored, rest) ==
             [h |-> rest.h, map |-> (keys[i] :> stored.ref) @@ rest.map]
           Next(stored) == Add(stored, StoreFinalPathItems(stored.h, paths, keys, i + 1))
       IN  Next(StorePathItem(h, PathItemObjectOf(paths[keys[i]])))
\* the objects of the document createFinalMetadata returned
StoreFinalDocument(h, doc) ==
  LET WithPaths(paths) ==
        IF "components" \in DOMAIN doc
        THEN LET WithComponentsOf(components) ==
                   NewObject(components.h,
                             ("components" :> components.ref) @@ ("paths" :> paths.ref)
                             @@ doc)
             IN  WithComponentsOf(NewObject(paths.h, doc["components"]))
        ELSE NewObject(paths.h, ("paths" :> paths.ref) @@ doc)
      Paths(items) == WithPaths(NewObject(items.h, items.map))
  IN  Paths(StoreFinalPathItems(h, doc["paths"],
                                SelectSeq(PathKeys,
                                          LAMBDA key : key \in DOMAIN doc["paths"]), 1))

\* the caller gives the document created to removeAuthenticatedOperations
GiveFinalMetadata ==
  /\ fpc = "created"
  /\ spc = "idle"
  /\ \E stored \in {StoreFinalDocument(<<>>, finalDoc[1].doc)} :
       /\ store' = stored.h
       /\ storeBefore' = stored.h
       /\ givenDoc' = stored.ref
  /\ spc' = "given"
  /\ UNCHANGED <<stripped, restripped, convVars, provVars, finalVars>>

DocNext == FinalNext \/ GiveFinalMetadata \/ RemoveAuthenticatedOperations

SpecDoc == FinalInit /\ [][DocNext]_vars

(***************************************************************************)
(* Properties of removeAuthenticatedOperations.                            *)
(***************************************************************************)
Removed == spc # "given"
\* the path items of a document by key, and the operations of a path item
\* by method
PathItemsOf(h, doc) == h[h[doc.ref]["paths"].ref]
OperationsOf(h, pathObject) ==
  IF pathObject = NoObject THEN <<>>
  ELSE [method \in {HttpMethods[i] : i \in 1..Len(HttpMethods)}
                     \cap DOMAIN h[pathObject.ref] |->
          h[h[pathObject.ref][method].ref]]
\* the operations of a document, by path key and method
AllOperations(h, doc) ==
  [key \in DOMAIN PathItemsOf(h, doc) |-> OperationsOf(h, PathItemsOf(h, doc)[key])]
\* the alternatives of the security of an operation, none when it has no
\* security or an undefined one
AlternativesOf(operation) ==
  IF Has(operation, "security") /\ operation["security"] # None
  THEN operation["security"][1]
  ELSE <<>>
\* the operation is in the document
HasOperation(operations, key, method) ==
  key \in DOMAIN operations /\ method \in DOMAIN operations[key]
\* the operations of the document returned, none when it is undefined
Returned(h, returned) ==
  IF returned.defined THEN AllOperations(h, returned.ref) ELSE <<>>

\* C15: the result is never a document whose paths are empty: if no path
\* item is left, also of a document given without paths, it is undefined.
C15_UndefinedWhenNoPaths ==
  Removed /\ stripped.defined => DOMAIN PathItemsOf(store, stripped.ref) # {}

\* no operation of the document has alternatives, and its components have
\* no security schemes
AlreadyUnauthenticated(h, doc) ==
  /\ \A key \in DOMAIN AllOperations(h, doc) :
       \A method \in DOMAIN AllOperations(h, doc)[key] :
         AlternativesOf(AllOperations(h, doc)[key][method]) = <<>>
  /\ Has(h[doc.ref], "components") =>
       ~Has(h[h[doc.ref]["components"].ref], "securitySchemes")

\* C16: of a document without authenticated operations and without security
\* schemes in its components, also one with operations, the call returns
\* the reference given, and so does a second call.
C16_SameReference ==
  Removed /\ AlreadyUnauthenticated(store, givenDoc) =>
    /\ stripped = Document(givenDoc)
    /\ spc = "removed again" => restripped = Document(givenDoc)

AllAlternativesRequired(operation) ==
  /\ AlternativesOf(operation) # <<>>
  /\ \A a \in 1..Len(AlternativesOf(operation)) :
       Cardinality(DOMAIN AlternativesOf(operation)[a]) >= 1

ComponentsOf(h, doc) ==
  IF Has(h[doc.ref], "components") THEN Some(h[h[doc.ref]["components"].ref])
  ELSE None

C28_InputUntouched ==
  Removed =>
    /\ Len(store) >= Len(storeBefore)
    /\ \A a \in 1..Len(storeBefore) : store[a] = storeBefore[a]
    /\ store[givenDoc.ref] = storeBefore[givenDoc.ref]
    /\ PathItemsOf(store, givenDoc) = PathItemsOf(storeBefore, givenDoc)
    /\ AllOperations(store, givenDoc) = AllOperations(storeBefore, givenDoc)
    /\ ComponentsOf(store, givenDoc) = ComponentsOf(storeBefore, givenDoc)

\* a new document was returned, without an operation of the document given
\* and with another one without its security, and the document given still
\* has both operations with their security, and its security schemes
C28_Witness ==
  /\ spc = "removed"
  /\ stripped.defined
  /\ stripped.ref # givenDoc
  /\ \E key \in DOMAIN AllOperations(store, givenDoc) :
       /\ DOMAIN AllOperations(store, givenDoc)[key] = {"get", "post"}
       /\ AllAlternativesRequired(AllOperations(store, givenDoc)[key]["get"])
       /\ Has(AllOperations(store, givenDoc)[key]["post"], "security")
       /\ DOMAIN Returned(store, stripped)[key] = {"post"}
       /\ ~Has(Returned(store, stripped)[key]["post"], "security")
  /\ \A a \in 1..Len(storeBefore) : store[a] = storeBefore[a]

\* the call returned undefined and the document given has its operations
C28_WitnessUndefined ==
  /\ spc = "removed"
  /\ ~stripped.defined
  /\ \E key \in DOMAIN AllOperations(store, givenDoc) :
       \E method \in DOMAIN AllOperations(store, givenDoc)[key] :
         AllAlternativesRequired(AllOperations(store, givenDoc)[key][method])
  /\ \A a \in 1..Len(storeBefore) : store[a] = storeBefore[a]

(***************************************************************************)
(* Properties of removeAuthenticatedOperations on created documents.       *)
(***************************************************************************)
\* the endpoint given for the operation of the method under the pattern:
\* the one of the last path entry of the pattern
LastEntryOf(pattern) ==
  CHOOSE p \in 1..Len(pathEntries) :
    /\ pathEntries[p].entry.pattern = pattern
    /\ \A q \in (p + 1)..Len(pathEntries) : pathEntries[q].entry.pattern # pattern
EndpointOfOperation(pattern, method) ==
  LET endpoints == pathEntries[LastEntryOf(pattern)].given.endpoints
  IN  endpoints[CHOOSE i \in 1..Len(endpoints) : ToLowerCase(endpoints[i].key) = method]
\* the usage groups the security callback yielded for the endpoint
UsageGroupsOf(endpoint) ==
  IF endpoint.val.spec.stateInfo = None THEN <<>>
  ELSE endpoint.val.spec.stateInfo[1].securitySchemes
\* the operations of the document created, as pairs of pattern and method
OperationsOfDoc ==
  {<<pattern, method>> \in (DOMAIN Doc["paths"]) \X {"get", "post", "put", "delete"} :
     Has(Doc["paths"][pattern], method)}
AllGroupsNonEmpty ==
  \A o \in OperationsOfDoc :
    \A g \in 1..Len(UsageGroupsOf(EndpointOfOperation(o[1], o[2]))) :
      Len(UsageGroupsOf(EndpointOfOperation(o[1], o[2]))[g]) > 0
SomeUsageOptional(groups) ==
  \E g \in 1..Len(groups) : \E u \in 1..Len(groups[g]) : groups[g][u].isOptional

C29_WitnessEmptyGroup ==
  /\ Created
  /\ spc = "removed"
  /\ \E o \in OperationsOfDoc :
       /\ \E g \in 1..Len(UsageGroupsOf(EndpointOfOperation(o[1], o[2]))) :
            Len(UsageGroupsOf(EndpointOfOperation(o[1], o[2]))[g]) = 0
       /\ ~SomeUsageOptional(UsageGroupsOf(EndpointOfOperation(o[1], o[2])))
       /\ HasOperation(Returned(store, stripped), o[1], o[2])

====
